---- MODULE Spec2Model ----
(***************************************************************************)
(* A model of three stateful parts of tgfx:                                *)
(*   - ResourceCache   (src/src/gpu/ResourceCache.cpp)                     *)
(*   - Canvas state stack, clip identity and clip-mask cache               *)
(*                     (src/src/core/Canvas.cpp)                           *)
(*   - ProgramCache    (src/src/gpu/ProgramCache.cpp)                      *)
(* Each part has its own specifications (SpecCache and SpecCacheCalls,     *)
(* SpecCanvas and SpecClipMask, SpecProgram); the variables of the other   *)
(* parts stay at their initial values.                                     *)
(***************************************************************************)
EXTENDS Integers, Sequences, FiniteSets, TLC

VARIABLES
  \* ---- ResourceCache members
  nonpurgeableResources,  \* std::list<Resource*>, front first
  purgeableResources,     \* std::list<Resource*>, front first
  recycleKeyMap,          \* BytesKey -> std::vector<Resource*> (no entry = no bucket)
  resourceKeyMap,         \* domain id -> Resource*
  totalBytes,
  purgeableBytes,
  maxBytes,
  \* ---- the Resource objects and what is outside the cache
  resources,              \* resource id -> fields of the Resource object
  keyHolders,             \* domain -> ResourceKey handles held outside the cache
  now,                    \* Clock::Now()
  \* ---- Canvas members
  state,                  \* std::shared_ptr<CanvasState> state: the current state
  savedStateList,         \* std::vector<std::shared_ptr<CanvasState>>, back last
  clipID,                 \* the clip identity the cached mask was drawn for
  clipSurface,            \* _clipSurface: the surface holding the cached mask
  \* ---- the clip identity counter, shared by all canvases
  nextID,                 \* static std::atomic_uint32_t nextID of NextClipID
  issuedClipIDs,          \* history: the ids NextClipID has returned
  threads,                \* the threads inside NextClipID: position, local id, ids got
  snapshots,              \* history: the state and stack depth at each open save()
  \* ---- the Surface the canvas draws into
  ops,                    \* the operations drawContext->addOp has queued, oldest first
  origin,                 \* surface->origin()
  \* ---- ProgramCache members
  programLRU,             \* std::list<Program*>, front first
  programMap,             \* BytesKey -> Program*
  recency,                \* history: cached keys by last use, latest first
  programCalls,           \* history: getProgram calls that returned a program
  programHits,            \* history: those of them that found the program cached
  \* ---- observer: the last call and what it returned
  last

cacheVars == <<nonpurgeableResources, purgeableResources, recycleKeyMap, resourceKeyMap,
               totalBytes, purgeableBytes, maxBytes, resources, keyHolders, now>>
canvasVars == <<state, savedStateList, clipID, clipSurface, nextID, issuedClipIDs,
                snapshots>>
programVars == <<programLRU, programMap, recency, programCalls, programHits>>
surfaceVars == <<ops, origin>>
threadVars == <<threads>>
vars == <<cacheVars, canvasVars, surfaceVars, programVars, threadVars, last>>

(***************************************************************************)
(* Bounds                                                                  *)
(***************************************************************************)
\* Resources the cache holds at one time.
MaxResources == 2

ResourceIds == 1..MaxResources
\* External shared_ptr holders of one resource, and the readings of the clock.
RefCounts == {0, 1}
Times == {0, 1}
\* 0 is the invalid (empty) BytesKey
RecycleKeys == {0, 1}
\* 0 is the empty ResourceKey
Domains == {1}
\* The domains of the keys where a resource moves from one key to another.
KeyDomains == {1, 2}
\* Resources under one recycle key have one size, those without a key another.
SizeOf(recycleKey) == IF recycleKey = 0 THEN 1 ELSE 2
\* The calls whose arguments and result the observer records.
ObservedCalls == {"findRecyclableResource", "setCacheLimit", "purgeNotUsedSince",
                  "purgeUntilMemoryTo", "getResource", "hasResource",
                  "changeResourceKey", "releaseAll"}

DefaultMaxBytes == 100663296
CacheLimits == {0, 2, DefaultMaxBytes}

NoResource == 0

\* Saved states on the canvas stack, and clip ids drawn from the counter.
MaxDepth == 2
MaxClipIDs == 3

\* Threads that call NextClipID at the same time, and calls made by each.
MaxThreads == 2
MaxThreadCalls == 2
ThreadIds == 1..MaxThreads

\* The width of the surface in pixels, and the resolution of coordinates: a pixel is
\* PixelSize cells wide, so that a rect can end between two pixel boundaries.
SurfaceWidth == 2
PixelSize == 2
DeviceWidth == SurfaceWidth * PixelSize
Cells == 0..(DeviceWidth - 1)

\* A uint32_t is held as its two 16-bit halves.
Half == 65536
U32(hi, lo) == [hi |-> hi, lo |-> lo]
\* v + 1 in uint32_t arithmetic (wraps to 0)
U32Inc(v) ==
  IF v.lo + 1 < Half THEN [hi |-> v.hi, lo |-> v.lo + 1]
  ELSE [hi |-> (v.hi + 1) % Half, lo |-> 0]
U32Less(a, b) == a.hi < b.hi \/ (a.hi = b.hi /\ a.lo < b.lo)

kFirstUnreservedClipID == U32(0, 1)
kDefaultClipID == U32(0, 0)

MAX_PROGRAM_COUNT == 128
\* removeOldestProgram() called without an argument
DefaultReleaseGPU == TRUE
NoProgram == 0
\* Unique keys of pipeline descriptions: one more than the cache can hold.
PipelineKeys == 1..(MAX_PROGRAM_COUNT + 1)
\* getProgram calls that return a program, and those of them that are hits.
MaxCalls == 131
MaxHits == 1
\* A cached pipeline is asked for again, and the cache is released, while the cache
\* holds this many programs.
EventSizes == {2, MAX_PROGRAM_COUNT}

(***************************************************************************)
(* Helpers on sequences                                                    *)
(***************************************************************************)
Range(s) == {s[i] : i \in DOMAIN s}

Reverse(s) == [i \in 1..Len(s) |-> s[Len(s) + 1 - i]]

RECURSIVE SumSizes(_, _)
SumSizes(rs, s) == IF s = << >> THEN 0 ELSE rs[Head(s)].size + SumSizes(rs, Tail(s))

Occurrences(s, x) == Cardinality({i \in DOMAIN s : s[i] = x})

(***************************************************************************)
(* Resource objects.  A resource id names a Resource object while the      *)
(* cache holds it ("cached"); once the cache has released the object it is *)
(* no longer reachable from the cache, the model forgets its fields and    *)
(* the id is free for the next object.                                     *)
(***************************************************************************)
FreshResource == [state |-> "uncached", recycleKey |-> 0, resourceKey |-> 0,
                  cachedList |-> "none", lastUsedTime |-> 0, size |-> 0, refs |-> 0]

ReleasedResource == FreshResource

\* The cache's members as one value, so that a handler's calls compose.
CacheState == [nonpurgeableResources |-> nonpurgeableResources,
               purgeableResources |-> purgeableResources,
               recycleKeyMap |-> recycleKeyMap,
               resourceKeyMap |-> resourceKeyMap,
               totalBytes |-> totalBytes,
               purgeableBytes |-> purgeableBytes,
               maxBytes |-> maxBytes,
               resources |-> resources]

Commit(c) ==
  /\ nonpurgeableResources' = c.nonpurgeableResources
  /\ purgeableResources' = c.purgeableResources
  /\ recycleKeyMap' = c.recycleKeyMap
  /\ resourceKeyMap' = c.resourceKeyMap
  /\ totalBytes' = c.totalBytes
  /\ purgeableBytes' = c.purgeableBytes
  /\ maxBytes' = c.maxBytes
  /\ resources' = c.resources

\* ResourceKey::useCount of the key a Resource carries (0 for the empty key): the
\* Resource's own handle and the handles held outside the cache.
useCount(d) == IF d = 0 THEN 0 ELSE 1 + keyHolders[d]

\* Resource::isPurgeable: no strong reference besides the cache's own.
isPurgeable(c, r) == c.resources[r].refs = 0

\* Resource::hasExternalReferences: the identity key is held by someone else too.
hasExternalReferences(c, r) == useCount(c.resources[r].resourceKey) > 1

\* Resource::release: the cache drops its own strong reference.
release(c, r) == [c EXCEPT !.resources[r] = ReleasedResource]

(***************************************************************************)
(* ResourceCache: list maintenance                                         *)
(***************************************************************************)
\* AddToList that puts the resource at the back of the list.
AddToList_Back(c, list, r) ==
  [c EXCEPT ![list] = @ \o <<r>>, !.resources[r].cachedList = list]

AddToList(c, list, r) ==
  [c EXCEPT ![list] = <<r>> \o @, !.resources[r].cachedList = list]

RemoveFromList(c, list, r) ==
  [c EXCEPT ![list] = SelectSeq(@, LAMBDA x : x # r), !.resources[r].cachedList = "none"]

InList(c, list, r) == c.resources[r].cachedList = list

(***************************************************************************)
(* ResourceCache: keys                                                     *)
(***************************************************************************)
MapErase(m, k) == [x \in (DOMAIN m) \ {k} |-> m[x]]

MapPut(m, k, v) == [x \in (DOMAIN m) \cup {k} |-> IF x = k THEN v ELSE m[x]]

removeResourceKey(c, r) ==
  [c EXCEPT !.resourceKeyMap = MapErase(@, c.resources[r].resourceKey),
            !.resources[r].resourceKey = 0]

\* changeResourceKey that leaves the previous holder of the key with its key.
changeResourceKey_KeepsOldKey(c, r, d) ==
  LET c2 == IF c.resources[r].resourceKey # 0
            THEN [c EXCEPT !.resourceKeyMap = MapErase(@, c.resources[r].resourceKey)]
            ELSE c
  IN [c2 EXCEPT !.resources[r].resourceKey = d,
                !.resourceKeyMap = MapPut(@, d, r)]

\* changeResourceKey that leaves the previous key of the resource in the index.
changeResourceKey_KeepsOwnEntry(c, r, d) ==
  LET c1 == IF d \in DOMAIN c.resourceKeyMap
            THEN removeResourceKey(c, c.resourceKeyMap[d])
            ELSE c
  IN [c1 EXCEPT !.resources[r].resourceKey = d,
                !.resourceKeyMap = MapPut(@, d, r)]

changeResourceKey(c, r, d) ==
  LET c1 == IF d \in DOMAIN c.resourceKeyMap
            THEN removeResourceKey(c, c.resourceKeyMap[d])
            ELSE c
      c2 == IF c1.resources[r].resourceKey # 0
            THEN [c1 EXCEPT !.resourceKeyMap = MapErase(@, c1.resources[r].resourceKey)]
            ELSE c1
  IN [c2 EXCEPT !.resources[r].resourceKey = d,
                !.resourceKeyMap = MapPut(@, d, r)]

\* getUniqueResource that does not ask whether the key is still referenced.
getUniqueResource_AnyKey(c, d) ==
  IF d = 0 THEN <<c, NoResource>>
  ELSE IF d \notin DOMAIN c.resourceKeyMap THEN <<c, NoResource>>
  ELSE <<c, c.resourceKeyMap[d]>>

\* Returns <<cache, resource or NoResource>>.
getUniqueResource(c, d) ==
  IF d = 0 THEN <<c, NoResource>>
  ELSE IF d \notin DOMAIN c.resourceKeyMap THEN <<c, NoResource>>
  ELSE LET r == c.resourceKeyMap[d]
       IN IF ~hasExternalReferences(c, r)
          THEN <<[c EXCEPT !.resourceKeyMap = MapErase(@, d),
                           !.resources[r].resourceKey = 0], NoResource>>
          ELSE <<c, r>>

(***************************************************************************)
(* ResourceCache: adding, referencing, removing                            *)
(***************************************************************************)
addResource(c, r, recycleKey, size) ==
  LET c1 == [c EXCEPT !.resources[r] =
                [FreshResource EXCEPT !.state = "cached", !.recycleKey = recycleKey,
                                      !.size = size, !.refs = 1]]
      c2 == IF recycleKey # 0
            THEN [c1 EXCEPT !.recycleKeyMap =
                    MapPut(@, recycleKey,
                           (IF recycleKey \in DOMAIN c1.recycleKeyMap
                            THEN c1.recycleKeyMap[recycleKey] ELSE << >>) \o <<r>>)]
            ELSE c1
      c3 == [c2 EXCEPT !.totalBytes = @ + size]
  IN AddToList(c3, "nonpurgeableResources", r)

\* refResource that leaves the resource on the purgeable list.
refResource_KeepsInPurgeable(c, r) ==
  LET c1 == IF InList(c, "purgeableResources", r)
            THEN AddToList([c EXCEPT !.purgeableBytes = @ - c.resources[r].size],
                           "nonpurgeableResources", r)
            ELSE c
  IN [c1 EXCEPT !.resources[r].refs = @ + 1]

\* refResource that takes the resource off the purgeable list without subtracting
\* its size from purgeableBytes.
refResource_KeepsPurgeableBytes(c, r) ==
  LET c1 == IF InList(c, "purgeableResources", r)
            THEN AddToList(RemoveFromList(c, "purgeableResources", r),
                           "nonpurgeableResources", r)
            ELSE c
  IN [c1 EXCEPT !.resources[r].refs = @ + 1]

\* The returned shared_ptr is one more external reference.
refResource(c, r) ==
  LET c1 == IF InList(c, "purgeableResources", r)
            THEN AddToList(
                   [RemoveFromList(c, "purgeableResources", r)
                      EXCEPT !.purgeableBytes = @ - c.resources[r].size],
                   "nonpurgeableResources", r)
            ELSE c
  IN [c1 EXCEPT !.resources[r].refs = @ + 1]

\* removeResource that forgets to subtract the resource's size.
removeResource_KeepsBytes(c, r) ==
  LET c1 == IF c.resources[r].resourceKey # 0 THEN removeResourceKey(c, r) ELSE c
      k == c1.resources[r].recycleKey
      c2 == IF k # 0 /\ k \in DOMAIN c1.recycleKeyMap
            THEN LET list == SelectSeq(c1.recycleKeyMap[k], LAMBDA x : x # r)
                 IN IF list = << >>
                    THEN [c1 EXCEPT !.recycleKeyMap = MapErase(@, k)]
                    ELSE [c1 EXCEPT !.recycleKeyMap = MapPut(@, k, list)]
            ELSE c1
  IN release(c2, r)

\* removeResource that leaves the resource in the index of recycle keys.
removeResource_KeepsBucket(c, r) ==
  LET c1 == IF c.resources[r].resourceKey # 0 THEN removeResourceKey(c, r) ELSE c
      c3 == [c1 EXCEPT !.totalBytes = @ - c1.resources[r].size]
  IN release(c3, r)

removeResource(c, r) ==
  LET c1 == IF c.resources[r].resourceKey # 0 THEN removeResourceKey(c, r) ELSE c
      k == c1.resources[r].recycleKey
      c2 == IF k # 0 /\ k \in DOMAIN c1.recycleKeyMap
            THEN LET list == SelectSeq(c1.recycleKeyMap[k], LAMBDA x : x # r)
                 IN IF list = << >>
                    THEN [c1 EXCEPT !.recycleKeyMap = MapErase(@, k)]
                    ELSE [c1 EXCEPT !.recycleKeyMap = MapPut(@, k, list)]
            ELSE c1
      c3 == [c2 EXCEPT !.totalBytes = @ - c2.resources[r].size]
  IN release(c3, r)

(***************************************************************************)
(* ResourceCache: purging                                                  *)
(***************************************************************************)
RECURSIVE MoveUnreferenced(_, _)
MoveUnreferenced(c, needToPurge) ==
  IF needToPurge = << >> THEN c
  ELSE LET r == Head(needToPurge)
           c1 == RemoveFromList(c, "nonpurgeableResources", r)
           c2 == IF c1.resources[r].recycleKey # 0
                 THEN [AddToList(c1, "purgeableResources", r)
                         EXCEPT !.purgeableBytes = @ + c1.resources[r].size,
                                !.resources[r].lastUsedTime = now]
                 ELSE removeResource(c1, r)
       IN MoveUnreferenced(c2, Tail(needToPurge))

\* processUnreferencedResources that moves every unreferenced resource to the
\* purgeable list, with or without a recycle key.
RECURSIVE MoveToPurgeable(_, _)
MoveToPurgeable(c, needToPurge) ==
  IF needToPurge = << >> THEN c
  ELSE LET r == Head(needToPurge)
           c1 == RemoveFromList(c, "nonpurgeableResources", r)
           c2 == [AddToList(c1, "purgeableResources", r)
                    EXCEPT !.purgeableBytes = @ + c1.resources[r].size,
                           !.resources[r].lastUsedTime = now]
       IN MoveToPurgeable(c2, Tail(needToPurge))

processUnreferencedResources_KeepsKeyless(c) ==
  LET needToPurge == SelectSeq(c.nonpurgeableResources, LAMBDA r : isPurgeable(c, r))
  IN IF needToPurge = << >> THEN c ELSE MoveToPurgeable(c, needToPurge)

\* processUnreferencedResources that does not ask whether a resource is purgeable.
processUnreferencedResources_All(c) ==
  IF c.nonpurgeableResources = << >> THEN c
  ELSE MoveUnreferenced(c, c.nonpurgeableResources)

processUnreferencedResources(c) ==
  LET needToPurge == SelectSeq(c.nonpurgeableResources, LAMBDA r : isPurgeable(c, r))
  IN IF needToPurge = << >> THEN c ELSE MoveUnreferenced(c, needToPurge)

\* The closures handed to purgeResourcesByLRU: purgeNotUsedSince's compares the
\* resource's lastUsedTime, purgeUntilMemoryTo's reads totalBytes at the time of the call.
satisfied(c, r, purge) ==
  IF purge.by = "time"
  THEN c.resources[r].lastUsedTime >= purge.purgeTime
  ELSE c.totalBytes <= purge.bytesLimit

\* The first loop of purgeResourcesByLRU without the test of recyclableResourcesOnly.
CollectToPurge_IgnoresFlag(c, recyclableResourcesOnly, purge) ==
  LET items == Reverse(c.purgeableResources)
      stop == {i \in DOMAIN items : satisfied(c, items[i], purge)}
      n == IF stop = {} THEN Len(items)
           ELSE (CHOOSE i \in stop : \A j \in stop : i <= j) - 1
  IN SubSeq(items, 1, n)

\* The first loop of purgeResourcesByLRU: walks the purgeable list from its back and
\* stops at the first resource that satisfies the caller.
CollectToPurge(c, recyclableResourcesOnly, purge) ==
  LET items == Reverse(c.purgeableResources)
      stop == {i \in DOMAIN items : satisfied(c, items[i], purge)}
      n == IF stop = {} THEN Len(items)
           ELSE (CHOOSE i \in stop : \A j \in stop : i <= j) - 1
  IN SelectSeq(SubSeq(items, 1, n),
               LAMBDA r : ~recyclableResourcesOnly \/ ~hasExternalReferences(c, r))

\* The second loop of purgeResourcesByLRU.
RECURSIVE PurgeAll(_, _)
PurgeAll(c, needToPurge) ==
  IF needToPurge = << >> THEN c
  ELSE LET r == Head(needToPurge)
           c1 == [RemoveFromList(c, "purgeableResources", r)
                    EXCEPT !.purgeableBytes = @ - c.resources[r].size]
       IN PurgeAll(removeResource(c1, r), Tail(needToPurge))

purgeResourcesByLRU(c, recyclableResourcesOnly, purge) ==
  LET c1 == processUnreferencedResources(c)
  IN PurgeAll(c1, CollectToPurge(c1, recyclableResourcesOnly, purge))

purgeNotUsedSince(c, purgeTime, recyclableResourcesOnly) ==
  purgeResourcesByLRU(c, recyclableResourcesOnly, [by |-> "time", purgeTime |-> purgeTime])

\* Returns the cache; the bool result is totalBytes <= bytesLimit of that cache.
purgeUntilMemoryTo(c, bytesLimit, recyclableResourcesOnly) ==
  purgeResourcesByLRU(c, recyclableResourcesOnly, [by |-> "bytes", bytesLimit |-> bytesLimit])

\* setCacheLimit that purges recyclable resources only.
setCacheLimit_RecyclableOnly(c, bytesLimit) ==
  IF c.maxBytes = bytesLimit THEN c
  ELSE purgeUntilMemoryTo([c EXCEPT !.maxBytes = bytesLimit], bytesLimit, TRUE)

setCacheLimit(c, bytesLimit) ==
  IF c.maxBytes = bytesLimit THEN c
  ELSE purgeUntilMemoryTo([c EXCEPT !.maxBytes = bytesLimit], bytesLimit, FALSE)

releaseAll(c) ==
  [c EXCEPT !.nonpurgeableResources = << >>,
            !.purgeableResources = << >>,
            !.recycleKeyMap = << >>,
            !.resourceKeyMap = << >>,
            !.purgeableBytes = 0,
            !.totalBytes = 0,
            !.resources = [r \in ResourceIds |->
                             IF c.resources[r].state = "cached"
                             THEN ReleasedResource ELSE c.resources[r]]]

\* findRecyclableResource that does not ask whether the resource is purgeable.
findRecyclableResource_AnyHolder(c, recycleKey) ==
  IF recycleKey \notin DOMAIN c.recycleKeyMap THEN <<c, NoResource>>
  ELSE LET list == c.recycleKeyMap[recycleKey]
           found == {i \in DOMAIN list : ~hasExternalReferences(c, list[i])}
       IN IF found = {} THEN <<c, NoResource>>
          ELSE LET index == CHOOSE i \in found : \A j \in found : i <= j
               IN <<refResource(c, list[index]), list[index]>>

\* findRecyclableResource that returns the candidate used last.
findRecyclableResource_MostRecent(c, recycleKey) ==
  IF recycleKey \notin DOMAIN c.recycleKeyMap THEN <<c, NoResource>>
  ELSE LET list == c.recycleKeyMap[recycleKey]
           found == {i \in DOMAIN list :
                       isPurgeable(c, list[i]) /\ ~hasExternalReferences(c, list[i])}
       IN IF found = {} THEN <<c, NoResource>>
          ELSE LET index == CHOOSE i \in found : \A j \in found :
                              c.resources[list[i]].lastUsedTime
                                >= c.resources[list[j]].lastUsedTime
               IN <<refResource(c, list[index]), list[index]>>

\* findRecyclableResource that does not ask whether the identity key is held.
findRecyclableResource_IgnoresKey(c, recycleKey) ==
  IF recycleKey \notin DOMAIN c.recycleKeyMap THEN <<c, NoResource>>
  ELSE LET list == c.recycleKeyMap[recycleKey]
           found == {i \in DOMAIN list : isPurgeable(c, list[i])}
       IN IF found = {} THEN <<c, NoResource>>
          ELSE LET index == CHOOSE i \in found : \A j \in found : i <= j
               IN <<refResource(c, list[index]), list[index]>>

\* Returns <<cache, resource or NoResource>>.
\* findRecyclableResource that first accounts for the unreferenced resources.
findRecyclableResource_Processes(c, recycleKey) ==
  LET p == processUnreferencedResources(c)
  IN IF recycleKey \notin DOMAIN p.recycleKeyMap THEN <<p, NoResource>>
     ELSE LET list == p.recycleKeyMap[recycleKey]
              found == {i \in DOMAIN list :
                          isPurgeable(p, list[i]) /\ ~hasExternalReferences(p, list[i])}
          IN IF found = {} THEN <<p, NoResource>>
             ELSE LET index == CHOOSE i \in found : \A j \in found : i <= j
                  IN <<refResource(p, list[index]), list[index]>>

findRecyclableResource(c, recycleKey) ==
  IF recycleKey \notin DOMAIN c.recycleKeyMap THEN <<c, NoResource>>
  ELSE LET list == c.recycleKeyMap[recycleKey]
           found == {i \in DOMAIN list :
                       isPurgeable(c, list[i]) /\ ~hasExternalReferences(c, list[i])}
       IN IF found = {} THEN <<c, NoResource>>
          ELSE LET index == CHOOSE i \in found : \A j \in found : i <= j
               IN <<refResource(c, list[index]), list[index]>>

getResource(c, d) ==
  LET u == getUniqueResource(c, d)
  IN IF u[2] = NoResource THEN u ELSE <<refResource(u[1], u[2]), u[2]>>

(***************************************************************************)
(* Canvas: geometry on a one-row surface                                   *)
(*                                                                         *)
(* The surface is a row of DeviceWidth cells; a Path or a Rect is the set   *)
(* of cells it covers, and a Matrix is an affine map x |-> sx * x + tx.    *)
(***************************************************************************)
Identity == [sx |-> 1, tx |-> 0]
\* The mirror image of the surface: x |-> (DeviceWidth - 1) - x
Flip == [sx |-> -1, tx |-> DeviceWidth - 1]
Matrices == {Identity, Flip}

\* Matrix::preConcat: this = this * m, the map x |-> this(m(x))
preConcat(this, m) == [sx |-> this.sx * m.sx, tx |-> this.sx * m.tx + this.tx]

\* Matrix::invert (of a matrix with sx = 1 or -1) and Matrix::MakeTrans
invert(m) == [sx |-> m.sx, tx |-> -(m.sx * m.tx)]
\* The bool Matrix::invert returns: a matrix that scales by 0 has no inverse.
invertible(m) == m.sx # 0
MakeScale(sx) == [sx |-> sx, tx |-> 0]
MakeTrans(tx) == [sx |-> 1, tx |-> tx]

\* Path::transform and Path::addPath(path, PathOp::Intersect)
\* Under a scale of 0 every rect and path is mapped to one without area.
transform(path, m) == IF m.sx = 0 THEN {} ELSE {m.sx * x + m.tx : x \in path}
Intersect(clip, path) == clip \cap path

\* Path::asRect: the filled path is one non-empty run of cells
asRect(path) ==
  /\ path # {}
  /\ \A x \in path, y \in path, z \in Cells : (x < z /\ z < y) => z \in path

\* Path::contains(rect): the rect lies inside the path (only for a one-contour path)
contains(path, rect) == asRect(path) /\ rect \subseteq path

Rects == {r \in SUBSET Cells : asRect(r)}
Paths == SUBSET Cells

Alphas == {50, 100}
BlendModes == {"SrcOver", "Src"}

(***************************************************************************)
(* Canvas: clip identities                                                 *)
(***************************************************************************)
\* NextClipID on the counter value n: the id returned and the counter afterwards.
\* The loop takes the next value when the one drawn is the reserved 0.
\* NextClipID that does not advance the counter.
NextClipID_Repeats(n) == [id |-> n, nextID |-> n]

\* One turn of the loop of NextClipID, as a thread takes it: the atomic nextID++ on
\* the counter value n, and the test that sends the thread round again.
\* The increment that leaves the counter as it was.
FetchAdd_Keeps(n) == [id |-> n, nextID |-> n]

FetchAdd(n) == [id |-> n, nextID |-> U32Inc(n)]

LoopAgain(id) == U32Less(id, kFirstUnreservedClipID)

NextClipID(n) ==
  IF ~U32Less(n, kFirstUnreservedClipID)
  THEN [id |-> n, nextID |-> U32Inc(n)]
  ELSE [id |-> U32Inc(n), nextID |-> U32Inc(U32Inc(n))]

(***************************************************************************)
(* Canvas: the state stack                                                 *)
(***************************************************************************)
\* A CanvasState as its constructor leaves it.
DefaultCanvasState ==
  [matrix |-> Identity, alpha |-> 100, blendMode |-> "SrcOver", clip |-> {},
   clipID |-> kDefaultClipID]

NoSurface == [allocated |-> FALSE, cleared |-> FALSE, pixels |-> {}]
\* A surface out of Surface::Make: nothing has been drawn to it yet.
NewSurface == [allocated |-> TRUE, cleared |-> FALSE, pixels |-> {}]

\* The members of the Canvas object.
CanvasObject ==
  [state |-> state, savedStateList |-> savedStateList, clipID |-> clipID,
   clipSurface |-> clipSurface, origin |-> origin]

CommitCanvas(cv) ==
  /\ state' = cv.state
  /\ savedStateList' = cv.savedStateList
  /\ clipID' = cv.clipID
  /\ clipSurface' = cv.clipSurface

\* Canvas::Canvas with the clip id drawn for it
NewCanvas(id) ==
  [state |-> [DefaultCanvasState EXCEPT !.clip = Cells, !.clipID = id],
   savedStateList |-> << >>, clipID |-> kDefaultClipID, clipSurface |-> NoSurface]

save(cv) == [cv EXCEPT !.savedStateList = Append(@, cv.state)]

\* restore that leaves the current matrix in place.
restore_KeepsMatrix(cv) ==
  IF cv.savedStateList = << >> THEN cv
  ELSE [cv EXCEPT
          !.state = [cv.savedStateList[Len(cv.savedStateList)] EXCEPT
                       !.matrix = cv.state.matrix],
          !.savedStateList = SubSeq(@, 1, Len(@) - 1)]

\* restore that resets the current state when the stack is empty.
restore_EmptyResets(cv) ==
  IF cv.savedStateList = << >>
  THEN [cv EXCEPT !.state = [DefaultCanvasState EXCEPT !.clip = Cells,
                                                       !.clipID = cv.state.clipID]]
  ELSE [cv EXCEPT !.state = cv.savedStateList[Len(cv.savedStateList)],
                  !.savedStateList = SubSeq(@, 1, Len(@) - 1)]

restore(cv) ==
  IF cv.savedStateList = << >> THEN cv
  ELSE [cv EXCEPT !.state = cv.savedStateList[Len(cv.savedStateList)],
                  !.savedStateList = SubSeq(@, 1, Len(@) - 1)]

setMatrix(cv, matrix) == [cv EXCEPT !.state.matrix = matrix]
resetMatrix(cv) == [cv EXCEPT !.state.matrix = Identity]
concat(cv, matrix) == [cv EXCEPT !.state.matrix = preConcat(@, matrix)]
setAlpha(cv, newAlpha) == [cv EXCEPT !.state.alpha = newAlpha]
setBlendMode(cv, blendMode) == [cv EXCEPT !.state.blendMode = blendMode]

\* clipPath that keeps the clip identity.
clipPath_KeepsClipID(cv, path, id) ==
  [cv EXCEPT !.state.clip = Intersect(@, transform(path, cv.state.matrix))]

\* Canvas::clipPath with the id NextClipID returns to it
clipPath(cv, path, id) ==
  [cv EXCEPT !.state.clip = Intersect(@, transform(path, cv.state.matrix)),
             !.state.clipID = id]

\* Canvas::clipRect: a path of the one rect, then clipPath
clipRect(cv, rect, id) == clipPath(cv, rect, id)

(***************************************************************************)
(* Canvas: the clip mask                                                   *)
(***************************************************************************)
\* Canvas::getClipTexture. allocOK: whether Surface::Make gives a surface (with or
\* without multisampling). Returns the canvas and whether a texture is returned.
getClipTexture(cv, allocOK) ==
  LET discarded == IF cv.clipID # cv.state.clipID
                   THEN [cv EXCEPT !.clipSurface = NoSurface] ELSE cv
      made == IF ~discarded.clipSurface.allocated /\ allocOK
              THEN [discarded EXCEPT !.clipSurface = NewSurface] ELSE discarded
  IN IF ~made.clipSurface.allocated THEN <<made, FALSE>>
     ELSE IF made.clipID # made.state.clipID
     THEN <<[made EXCEPT
               !.clipSurface = [allocated |-> TRUE, cleared |-> TRUE,
                                pixels |-> made.state.clip],
               !.clipID = made.state.clipID], TRUE>>
     ELSE <<made, TRUE>>

(***************************************************************************)
(* Canvas: resolving the clip for a draw                                   *)
(***************************************************************************)
\* The edges of a non-empty rect, and Path::getBounds, Rect::roundOut, Matrix::mapRect.
Left(rect) == CHOOSE x \in rect : \A y \in rect : x <= y
Right(rect) == (CHOOSE x \in rect : \A y \in rect : y <= x) + 1
getBounds(path) == IF path = {} THEN {} ELSE Left(path)..(Right(path) - 1)
roundOut(rect) ==
  IF rect = {} THEN {}
  ELSE (Left(rect) - (Left(rect) % PixelSize))
         ..(Right(rect) + ((PixelSize - (Right(rect) % PixelSize)) % PixelSize) - 1)
mapRect(m, rect) == getBounds(transform(rect, m))

\* IsPixelAligned: both edges on a pixel boundary.  The tolerance of 1e-3 pixel is
\* finer than a cell, so an edge is within it exactly when it is on the boundary.
IsPixelAligned(rect) ==
  rect = {} \/ (Left(rect) % PixelSize = 0 /\ Right(rect) % PixelSize = 0)

Origins == {"TopLeft", "BottomLeft"}
\* FlipYIfNeeded: the row runs along the y axis of the surface.
FlipYIfNeeded(rect, surfaceOrigin) ==
  IF surfaceOrigin = "BottomLeft" THEN {(DeviceWidth - 1) - x : x \in rect} ELSE rect

\* getClipRect that takes every rect for a scissor rect.
getClipRect_AlwaysScissor(cv) ==
  IF asRect(cv.state.clip)
  THEN LET rect == FlipYIfNeeded(cv.state.clip, cv.origin)
       IN IF rect # Cells
          THEN [has |-> TRUE, rect |-> rect, useScissor |-> TRUE]
          ELSE [has |-> TRUE, rect |-> {}, useScissor |-> FALSE]
  ELSE [has |-> FALSE, rect |-> {}, useScissor |-> FALSE]

\* Canvas::getClipRect: has is std::optional::has_value().
getClipRect(cv) ==
  IF asRect(cv.state.clip)
  THEN LET rect == FlipYIfNeeded(cv.state.clip, cv.origin)
       IN IF IsPixelAligned(rect)
          THEN IF rect # Cells
               THEN [has |-> TRUE, rect |-> rect, useScissor |-> TRUE]
               ELSE [has |-> TRUE, rect |-> {}, useScissor |-> FALSE]
          ELSE [has |-> TRUE, rect |-> rect, useScissor |-> FALSE]
  ELSE [has |-> FALSE, rect |-> {}, useScissor |-> FALSE]

\* getClipMask that does not ask first whether the clip contains the device bounds.
getClipMask_NoContains(cv, deviceBounds, allocOK) ==
  LET r == getClipRect(cv)
  IN IF r.has
     THEN IF r.useScissor
          THEN <<cv, [treatment |-> "scissor", scissorRect |-> r.rect]>>
          ELSE IF r.rect # {}
          THEN <<cv, [treatment |-> "AARectEffect", scissorRect |-> {}]>>
          ELSE <<cv, [treatment |-> "none", scissorRect |-> {}]>>
     ELSE LET t == getClipTexture(cv, allocOK)
          IN <<t[1], [treatment |-> IF t[2] THEN "texture" ELSE "nullptr",
                      scissorRect |-> {}]>>

\* getClipMask that asks whether the clip contains the device bounds only after the
\* clip turned out not to be a rect.
getClipMask_RectFirst(cv, deviceBounds, allocOK) ==
  LET r == getClipRect(cv)
  IN IF r.has
     THEN IF r.useScissor
          THEN <<cv, [treatment |-> "scissor", scissorRect |-> r.rect]>>
          ELSE IF r.rect # {}
          THEN <<cv, [treatment |-> "AARectEffect", scissorRect |-> {}]>>
          ELSE <<cv, [treatment |-> "none", scissorRect |-> {}]>>
     ELSE IF contains(cv.state.clip, deviceBounds)
     THEN <<cv, [treatment |-> "none", scissorRect |-> {}]>>
     ELSE LET t == getClipTexture(cv, allocOK)
          IN <<t[1], [treatment |-> IF t[2] THEN "texture" ELSE "nullptr",
                      scissorRect |-> {}]>>

\* Canvas::getClipMask: the treatment the clip gets for an op of the given device
\* bounds, and the scissor rect it sets.  "nullptr" is the mask effect made of the null
\* texture that getClipTexture returns when the surface cannot be made.
getClipMask(cv, deviceBounds, allocOK) ==
  IF contains(cv.state.clip, deviceBounds)
  THEN <<cv, [treatment |-> "none", scissorRect |-> {}]>>
  ELSE LET r == getClipRect(cv)
       IN IF r.has
          THEN IF r.useScissor
               THEN <<cv, [treatment |-> "scissor", scissorRect |-> r.rect]>>
               ELSE IF r.rect # {}
               THEN <<cv, [treatment |-> "AARectEffect", scissorRect |-> {}]>>
               ELSE <<cv, [treatment |-> "none", scissorRect |-> {}]>>
          ELSE LET t == getClipTexture(cv, allocOK)
               IN <<t[1], [treatment |-> IF t[2] THEN "texture" ELSE "nullptr",
                           scissorRect |-> {}]>>

\* Canvas::clipLocalBounds (a Matrix of the row has no skew)
clipLocalBounds(cv, localBounds) ==
  LET deviceBounds == mapRect(cv.state.matrix, localBounds)
      clipBounds == roundOut(getBounds(cv.state.clip))
      clippedDeviceBounds == deviceBounds \cap clipBounds
  IN IF clippedDeviceBounds = {} THEN {}
     ELSE IF clippedDeviceBounds # deviceBounds
     THEN mapRect(invert(cv.state.matrix), clippedDeviceBounds)
     ELSE localBounds

(***************************************************************************)
(* Canvas: drawing                                                         *)
(*                                                                         *)
(* A draw call works on the canvas members, on the queue of operations of  *)
(* the surface, and logs the allocations that failed in it, the           *)
(* strategies fillPath selected and the aboutToDraw notices the surface    *)
(* got.  env says which allocations of the GPU backend succeed and whether *)
(* the path triangulates.  A color is its alpha in percent; a fragment     *)
(* processor is its name.                                                  *)
(***************************************************************************)
DrawObject ==
  [state |-> state, savedStateList |-> savedStateList, clipID |-> clipID,
   clipSurface |-> clipSurface, origin |-> origin, ops |-> ops,
   failed |-> {}, strategies |-> << >>, notified |-> << >>]

Failed(cv, allocation) == [cv EXCEPT !.failed = @ \cup {allocation}]
Selected(cv, strategy) == [cv EXCEPT !.strategies = Append(@, strategy)]

Allocations == {"clipSurface", "maskTexture", "imageFP", "shaderFP", "filterImage"}
AllSucceed ==
  [clipSurface |-> TRUE, maskTexture |-> TRUE, imageFP |-> TRUE, shaderFP |-> TRUE,
   filterImage |-> TRUE, triangulates |-> TRUE]
\* At most one allocation fails in a call.
Envs ==
  {[AllSucceed EXCEPT !.triangulates = t] : t \in BOOLEAN}
    \cup {[AllSucceed EXCEPT ![a] = FALSE, !.triangulates = t] :
            a \in Allocations, t \in BOOLEAN}

\* Paint as its default constructor leaves it, and the paints handed to the draw calls.
DefaultPaint ==
  [alpha |-> 100, style |-> "Fill", strokeWidth |-> 0, shader |-> "none",
   colorFilter |-> "none", maskFilter |-> "none", imageFilter |-> "none"]
Paints ==
  {DefaultPaint,
   [DefaultPaint EXCEPT !.alpha = 50],
   [DefaultPaint EXCEPT !.alpha = 0],
   [DefaultPaint EXCEPT !.shader = "Shader"],
   [DefaultPaint EXCEPT !.colorFilter = "ColorFilter"],
   [DefaultPaint EXCEPT !.colorFilter = "unconvertible"],
   [DefaultPaint EXCEPT !.maskFilter = "MaskFilter"],
   [DefaultPaint EXCEPT !.imageFilter = "ImageFilter"],
   [DefaultPaint EXCEPT !.style = "Stroke", !.strokeWidth = 1],
   [DefaultPaint EXCEPT !.style = "Stroke"]}

\* Canvas::nothingToDraw, for the blend modes SrcOver and Src and a color filter that
\* leaves alpha unchanged.
\* nothingToDraw that does not look at the blend mode.
nothingToDraw_AnyBlend(cv, paint) ==
  IF cv.state.alpha = 0 \/ paint.alpha = 0
  THEN paint.imageFilter = "none"
  ELSE FALSE

nothingToDraw(cv, paint) ==
  IF cv.state.blendMode = "SrcOver" /\ (cv.state.alpha = 0 \/ paint.alpha = 0)
  THEN paint.imageFilter = "none"
  ELSE FALSE

\* PaintToGLPaint: the GpuPaint, ok being the bool it returns. shaderProcessor is
\* "none" for nullptr.
PaintToGLPaint(paint, alpha, shaderProcessor, env) ==
  LET shaderFP == IF shaderProcessor # "none" THEN shaderProcessor
                  ELSE IF paint.shader = "none" THEN "none"
                  ELSE IF env.shaderFP THEN paint.shader ELSE "nullptr"
      a == (alpha * paint.alpha) \div 100
      shaded == IF shaderFP = "none" THEN << >>
                ELSE IF a # 100 THEN <<shaderFP, "ConstColorProcessor">>
                ELSE <<shaderFP>>
      filtered == IF paint.colorFilter = "none" THEN shaded
                  ELSE Append(shaded, paint.colorFilter)
      coverage == IF paint.maskFilter = "none" THEN << >> ELSE <<paint.maskFilter>>
  IN IF shaderFP = "nullptr"
     THEN [ok |-> FALSE, failed |-> {"shaderFP"}, color |-> 100,
           colorFragmentProcessors |-> << >>, coverageFragmentProcessors |-> << >>]
     ELSE IF paint.colorFilter = "unconvertible"
     THEN [ok |-> FALSE, failed |-> {}, color |-> 100,
           colorFragmentProcessors |-> << >>, coverageFragmentProcessors |-> << >>]
     ELSE [ok |-> TRUE, failed |-> {},
           color |-> IF shaderFP = "none" THEN a ELSE 100,
           colorFragmentProcessors |-> filtered,
           coverageFragmentProcessors |-> coverage]

\* The operations: ClearOp::Make, FillRectOp::Make, RRectOp::Make and
\* TriangulatingPathOp::Make. bounds is op->bounds(), in device coordinates.
NoOp == [type |-> "nullptr"]
NewOp(type, color, bounds) ==
  [type |-> type, color |-> color, bounds |-> bounds, scissorRect |-> {},
   blendMode |-> "", aa |-> "", colors |-> << >>, masks |-> << >>]
ClearOp(color, rect) == NewOp("ClearOp", color, rect)
FillRectOp(color, rect, viewMatrix) == NewOp("FillRectOp", color, mapRect(viewMatrix, rect))
RRectOp(color, rRect, viewMatrix) == NewOp("RRectOp", color, mapRect(viewMatrix, rRect))
TriangulatingPathOp(color, path) == NewOp("TriangulatingPathOp", color, getBounds(path))

\* drawContext->addOp
addOp(cv, op) == [cv EXCEPT !.ops = Append(@, op)]

\* surface->aboutToDraw(discardContent): the notice is logged.
aboutToDraw(cv, discardContent) == [cv EXCEPT !.notified = Append(@, discardContent)]

\* Canvas::draw, for a render target of one sample per pixel; a matrix of the row
\* rotates by 0 or 180 degrees.
\* std::round of an angle given in tenths of a degree, to whole degrees: halves go
\* away from zero.
RoundDegrees(tenths) ==
  IF tenths >= 0 THEN (tenths + 5) \div 10 ELSE -((5 - tenths) \div 10)

\* RadiansToDegrees(atan2f(skewX, scaleX)) in tenths of a degree, for the matrices of
\* the model, which have no skew.
Rotation(m) == IF m.sx < 0 THEN 1800 ELSE 0

\* The choice of the AAType of Canvas::draw that reads aa as if it were always set.
AATypeOf_IgnoresAA(sampleCount, aa, bounds, rotation) ==
  IF sampleCount > 1 THEN "MSAA"
  ELSE IF ~IsPixelAligned(bounds) THEN "Coverage"
  ELSE IF RoundDegrees(rotation) % 90 # 0 THEN "Coverage"
  ELSE "None"

\* The choice of the AAType in Canvas::draw; rotation is the angle of the current
\* matrix before rounding, in tenths of a degree.
AATypeOf(sampleCount, aa, bounds, rotation) ==
  IF sampleCount > 1 THEN "MSAA"
  ELSE IF aa /\ ~IsPixelAligned(bounds) THEN "Coverage"
  ELSE IF RoundDegrees(rotation) % 90 # 0 THEN "Coverage"
  ELSE "None"

\* The render targets of the model have one sample per pixel.
draw(cv, op, paint, aa, env) ==
  LET aaType == AATypeOf(1, aa, op.bounds, Rotation(cv.state.matrix))
      m == getClipMask(cv, op.bounds, env.clipSurface)
      clipMask == IF m[2].treatment \in {"AARectEffect", "texture"}
                  THEN <<m[2].treatment>> ELSE << >>
      cv1 == IF m[2].treatment = "nullptr" THEN Failed(m[1], "clipSurface") ELSE m[1]
  IN addOp(aboutToDraw(cv1, FALSE),
           [op EXCEPT !.scissorRect = m[2].scissorRect,
                           !.blendMode = cv.state.blendMode,
                           !.aa = aaType,
                           !.colors = paint.colorFragmentProcessors,
                           !.masks = paint.coverageFragmentProcessors \o clipMask])

\* drawAsClear that does not look at the kind of clip.
drawAsClear_AnyClip(cv, path, paint) ==
  IF paint.colorFragmentProcessors # << >> \/ paint.coverageFragmentProcessors # << >>
  THEN <<cv, FALSE>>
  ELSE IF cv.state.blendMode # "Src" /\ paint.color # 100 THEN <<cv, FALSE>>
  ELSE IF ~asRect(path) THEN <<cv, FALSE>>
  ELSE LET bounds == mapRect(cv.state.matrix, path)
       IN IF ~IsPixelAligned(bounds) THEN <<cv, FALSE>>
          ELSE <<addOp(aboutToDraw(cv, TRUE),
                       ClearOp(paint.color, FlipYIfNeeded(bounds, cv.origin))), TRUE>>

\* Canvas::drawAsClear: the canvas and the bool it returns.
drawAsClear(cv, path, paint) ==
  IF paint.colorFragmentProcessors # << >> \/ paint.coverageFragmentProcessors # << >>
  THEN <<cv, FALSE>>
  ELSE IF cv.state.blendMode # "Src" /\ paint.color # 100 THEN <<cv, FALSE>>
  ELSE IF ~asRect(path) THEN <<cv, FALSE>>
  ELSE LET bounds == mapRect(cv.state.matrix, path)
           r == getClipRect(cv)
           flipped == FlipYIfNeeded(bounds, cv.origin)
           noticed == aboutToDraw(cv, TRUE)
       IN IF ~IsPixelAligned(bounds) THEN <<cv, FALSE>>
          ELSE IF r.has /\ r.useScissor
          THEN <<addOp(noticed, ClearOp(paint.color,
                                        IF r.rect \cap flipped # {}
                                        THEN r.rect \cap flipped
                                        ELSE r.rect)), TRUE>>
          ELSE IF r.has /\ r.rect = {}
          THEN <<addOp(noticed, ClearOp(paint.color, flipped)), TRUE>>
          ELSE <<noticed, FALSE>>

\* MakeSimplePathOp: rRect says whether Path::asRRect succeeds.
MakeSimplePathOp(path, rRect, glPaint, viewMatrix) ==
  IF asRect(path) THEN FillRectOp(glPaint.color, path, viewMatrix)
  ELSE IF rRect THEN RRectOp(glPaint.color, getBounds(path), viewMatrix)
  ELSE NoOp

\* Canvas::drawMask: mask says whether the texture proxy is not null.
\* drawMask that does not ask whether the matrix has an inverse.
drawMask_IgnoresSingular(cv, bounds, mask, glPaint, env) ==
  IF ~mask THEN Failed(cv, "maskTexture")
  ELSE LET oldMatrix == cv.state.matrix
           cv1 == resetMatrix(cv)
           masked == [glPaint EXCEPT
                        !.coverageFragmentProcessors = Append(@, "TextureEffect")]
           op == FillRectOp(glPaint.color, bounds, cv1.state.matrix)
       IN setMatrix(draw(cv1, op, masked, FALSE, env), oldMatrix)

drawMask(cv, bounds, mask, glPaint, env) ==
  IF ~mask THEN Failed(cv, "maskTexture")
  ELSE IF ~invertible(cv.state.matrix) THEN cv
  ELSE LET oldMatrix == cv.state.matrix
           cv1 == resetMatrix(cv)
           masked == [glPaint EXCEPT
                        !.coverageFragmentProcessors = Append(@, "TextureEffect")]
           op == FillRectOp(glPaint.color, bounds, cv1.state.matrix)
       IN setMatrix(draw(cv1, op, masked, FALSE, env), oldMatrix)

\* Canvas::fillPath that goes on to the next strategy after a clear.
fillPath_ClearAndDraw(cv, path, rRect, paint, env) ==
  IF path = {} THEN cv
  ELSE LET glPaint == PaintToGLPaint(paint, cv.state.alpha, "none", env)
           localBounds == clipLocalBounds(cv, getBounds(path))
           cleared == drawAsClear(cv, path, glPaint)
           op == MakeSimplePathOp(path, rRect, glPaint, cv.state.matrix)
       IN IF ~glPaint.ok THEN [cv EXCEPT !.failed = @ \cup glPaint.failed]
          ELSE IF localBounds = {} THEN cv
          ELSE IF op # NoOp
          THEN draw(Selected(IF cleared[2] THEN Selected(cleared[1], "clear")
                             ELSE cleared[1], "simple"), op, glPaint, FALSE, env)
          ELSE IF cleared[2] THEN Selected(cleared[1], "clear")
          ELSE cleared[1]

\* Canvas::fillPath; a matrix of the row is invertible.
fillPath(cv, path, rRect, paint, env) ==
  IF path = {} THEN cv
  ELSE LET glPaint == PaintToGLPaint(paint, cv.state.alpha, "none", env)
           localBounds == clipLocalBounds(cv, getBounds(path))
           cleared == drawAsClear(cv, path, glPaint)
           op == MakeSimplePathOp(path, rRect, glPaint, cv.state.matrix)
           tempPath == transform(path, cv.state.matrix)
           deviceBounds == mapRect(cv.state.matrix, localBounds)
       IN IF ~glPaint.ok THEN [cv EXCEPT !.failed = @ \cup glPaint.failed]
          ELSE IF localBounds = {} THEN cv
          ELSE IF cleared[2] THEN Selected(cleared[1], "clear")
          ELSE IF op # NoOp
          THEN draw(Selected(cleared[1], "simple"), op, glPaint, FALSE, env)
          ELSE IF ~invertible(cv.state.matrix) THEN cleared[1]
          ELSE IF env.triangulates
          THEN restore(draw(resetMatrix(save(Selected(cleared[1], "triangulation"))),
                            TriangulatingPathOp(glPaint.color, tempPath),
                            glPaint, FALSE, env))
          ELSE drawMask(Selected(cleared[1], "mask"), deviceBounds, env.maskTexture,
                        glPaint, env)

\* PathEffect::MakeStroke(...)->applyTo: the stroke reaches strokeWidth cells beyond
\* the path on both sides.
applyStroke(path, strokeWidth) ==
  {x + d : x \in path, d \in (-strokeWidth)..strokeWidth}

\* Canvas::drawPath; a stroke of no width has no stroke effect.
drawPath(cv, path, rRect, paint, env) ==
  IF nothingToDraw(cv, paint) THEN cv
  ELSE IF paint.style = "Fill" THEN fillPath(cv, path, rRect, paint, env)
  ELSE IF paint.strokeWidth = 0 THEN cv
  ELSE fillPath(cv, applyStroke(path, paint.strokeWidth), rRect, paint, env)

\* Canvas::drawRect
drawRect(cv, rect, paint, env) ==
  IF nothingToDraw(cv, paint) THEN cv
  ELSE drawPath(cv, rect, FALSE, paint, env)

\* Canvas::clear
clear(cv, color, env) ==
  LET oldBlend == cv.state.blendMode
      cleared == drawRect(setBlendMode(cv, "Src"), Cells,
                          [DefaultPaint EXCEPT !.alpha = color], env)
  IN setBlendMode(cleared, oldBlend)

\* Canvas::drawShape: a shape is its bounds and whether Shape::makeOp gives an op;
\* NoShape is nullptr.
NoShape == [bounds |-> {}, makesOp |-> FALSE]
drawShape(cv, shape, paint, env) ==
  IF shape = NoShape \/ nothingToDraw(cv, paint) THEN cv
  ELSE LET glPaint == PaintToGLPaint(paint, cv.state.alpha, "none", env)
           bounds == mapRect(cv.state.matrix, shape.bounds)
           clipBounds == roundOut(getBounds(cv.state.clip))
       IN IF ~glPaint.ok THEN [cv EXCEPT !.failed = @ \cup glPaint.failed]
          ELSE IF clipBounds \cap bounds = {} THEN cv
          ELSE IF ~shape.makesOp THEN cv
          ELSE draw(cv, NewOp("ShapeOp", glPaint.color, bounds), glPaint, FALSE, env)

\* An image is its width in cells and whether it is alpha only; NoImage is nullptr.
NoImage == [width |-> 0, alphaOnly |-> FALSE]
RectMakeWH(width) == 0..(width - 1)

\* PaintToGLPaintWithImage
PaintToGLPaintWithImage(paint, alpha, fp, imageIsAlphaOnly, env) ==
  LET shaderFP == IF imageIsAlphaOnly
                  THEN IF paint.shader = "none" THEN fp
                       ELSE IF env.shaderFP THEN "SeriesFragmentProcessor" ELSE "nullptr"
                  ELSE "MulChildByInputAlpha"
  IN IF shaderFP = "nullptr"
     THEN [ok |-> FALSE, failed |-> {"shaderFP"}, color |-> 100,
           colorFragmentProcessors |-> << >>, coverageFragmentProcessors |-> << >>]
     ELSE PaintToGLPaint(paint, alpha, shaderFP, env)

\* Canvas::drawImage(image, sampling, const Paint& paint)
drawImagePaint(cv, image, paint, env) ==
  IF image = NoImage THEN cv
  ELSE LET localBounds == clipLocalBounds(cv, RectMakeWH(image.width))
           glPaint == PaintToGLPaintWithImage(paint, cv.state.alpha, "ImageFP",
                                              image.alphaOnly, env)
       IN IF localBounds = {} THEN cv
          ELSE IF ~env.imageFP THEN Failed(cv, "imageFP")
          ELSE IF ~glPaint.ok THEN [cv EXCEPT !.failed = @ \cup glPaint.failed]
          ELSE draw(cv, FillRectOp(glPaint.color, localBounds, cv.state.matrix),
                    glPaint, TRUE, env)

\* What the image filter does: the image comes out one pixel further, or not at all
\* when the filter cannot make its surface.
FilterOffset == PixelSize

\* Canvas::drawImage(image, sampling, const Paint* paint) that returns with the
\* offset of the image filter still in the matrix.
drawImageSampling_KeepsOffset(cv, image, paint, env) ==
  LET realPaint == [paint EXCEPT !.style = "Fill"]
      filtered == realPaint.imageFilter # "none"
      cv1 == IF filtered THEN concat(cv, MakeTrans(FilterOffset)) ELSE cv
      cv2 == IF filtered /\ ~env.filterImage THEN Failed(cv1, "filterImage") ELSE cv1
      outImage == IF filtered /\ ~env.filterImage THEN NoImage ELSE image
  IN IF image = NoImage THEN cv
     ELSE IF nothingToDraw(cv, realPaint) THEN cv
     ELSE drawImagePaint(cv2, outImage, [realPaint EXCEPT !.imageFilter = "none"], env)

\* Canvas::drawImage(image, sampling, const Paint* paint)
drawImageSampling(cv, image, paint, env) ==
  LET realPaint == [paint EXCEPT !.style = "Fill"]
      oldMatrix == cv.state.matrix
      filtered == realPaint.imageFilter # "none"
      cv1 == IF filtered THEN concat(cv, MakeTrans(FilterOffset)) ELSE cv
      cv2 == IF filtered /\ ~env.filterImage THEN Failed(cv1, "filterImage") ELSE cv1
      outImage == IF filtered /\ ~env.filterImage THEN NoImage ELSE image
  IN IF image = NoImage THEN cv
     ELSE IF nothingToDraw(cv, realPaint) THEN cv
     ELSE IF filtered /\ ~invertible(oldMatrix) THEN cv
     ELSE setMatrix(drawImagePaint(cv2, outImage,
                                   [realPaint EXCEPT !.imageFilter = "none"], env),
                    oldMatrix)

\* Canvas::drawImage(image, const Paint* paint)
drawImage(cv, image, paint, env) ==
  IF image = NoImage THEN cv ELSE drawImageSampling(cv, image, paint, env)

\* Canvas::drawImage(image, matrix, paint) and Canvas::drawImage(image, left, top, paint)
drawImageMatrix(cv, image, matrix, paint, env) ==
  LET oldMatrix == cv.state.matrix
  IN setMatrix(drawImage(concat(cv, matrix), image, paint, env), oldMatrix)

drawImageLeftTop(cv, image, left, paint, env) ==
  drawImageMatrix(cv, image, MakeTrans(left), paint, env)

\* A glyph is its position and whether the font has an image of it; a run of glyphs
\* is a sequence of them.
GlyphWidth == PixelSize
GlyphImage == [width |-> GlyphWidth, alphaOnly |-> FALSE]

\* Canvas::drawColorGlyphs
RECURSIVE drawColorGlyphs(_, _, _, _)
drawColorGlyphs(cv, glyphs, paint, env) ==
  IF glyphs = << >> THEN cv
  ELSE LET glyph == Head(glyphs)
           cv1 == IF ~glyph.hasImage THEN cv
                  ELSE restore(drawImage(concat(save(cv), MakeTrans(glyph.position)),
                                         GlyphImage, paint, env))
       IN drawColorGlyphs(cv1, Tail(glyphs), paint, env)

\* TextBlob::getBounds: from the first glyph to the end of the last, widened by a stroke.
textBlobBounds(glyphs, paint) ==
  LET bounds == getBounds({g.position + d : g \in Range(glyphs), d \in 0..(GlyphWidth - 1)})
  IN IF paint.style = "Stroke" THEN applyStroke(bounds, paint.strokeWidth) ELSE bounds

\* Canvas::drawMaskGlyphs
drawMaskGlyphs(cv, glyphs, paint, env) ==
  LET glPaint == PaintToGLPaint(paint, cv.state.alpha, "none", env)
      localBounds == clipLocalBounds(cv, textBlobBounds(glyphs, paint))
      deviceBounds == mapRect(cv.state.matrix, localBounds)
  IN IF ~glPaint.ok THEN [cv EXCEPT !.failed = @ \cup glPaint.failed]
     ELSE IF localBounds = {} THEN cv
     ELSE drawMask(cv, deviceBounds, env.maskTexture, glPaint, env)

\* Canvas::drawGlyphs and Canvas::drawSimpleText. The scale of a matrix of the row is
\* 1, so the glyphs keep their positions and MakeScale(1 / scale) is the identity.
drawGlyphs(cv, glyphs, hasColor, paint, env) ==
  IF nothingToDraw(cv, paint) \/ glyphs = << >> THEN cv
  ELSE LET scaled == concat(save(cv), Identity)
       IN IF hasColor THEN restore(drawColorGlyphs(scaled, glyphs, paint, env))
          ELSE restore(drawMaskGlyphs(scaled, glyphs, paint, env))

drawSimpleText(cv, glyphs, x, hasColor, paint, env) ==
  drawGlyphs(cv, [i \in DOMAIN glyphs |-> [glyphs[i] EXCEPT !.position = @ + x]],
             hasColor, paint, env)

\* The first loop of Canvas::drawAtlas: the rect ops of the sprites, each sprite
\* GlyphWidth wide. batches says whether FillRectOp::add takes another rect.
RECURSIVE atlasOps(_, _, _, _)
atlasOps(cv, matrix, rectOps, batches) ==
  IF matrix = << >> THEN <<cv, rectOps>>
  ELSE LET totalMatrix == cv.state.matrix
           cv1 == concat(cv, Head(matrix))
           localBounds == clipLocalBounds(cv1, RectMakeWH(GlyphWidth))
           rect == mapRect(cv1.state.matrix, localBounds)
           added == IF localBounds = {} THEN rectOps
                    ELSE IF rectOps # << >> /\ batches
                    THEN [rectOps EXCEPT ![Len(rectOps)].bounds = getBounds(@ \cup rect)]
                    ELSE Append(rectOps, NewOp("FillRectOp", 100, rect))
       IN atlasOps(setMatrix(cv1, totalMatrix), Tail(matrix), added, batches)

\* The second loop of Canvas::drawAtlas.
RECURSIVE drawAtlasOps(_, _, _)
drawAtlasOps(cv, rectOps, env) ==
  IF rectOps = << >> THEN cv
  ELSE IF ~env.imageFP THEN Failed(cv, "imageFP")
  ELSE LET glPaint == [ok |-> TRUE, failed |-> {}, color |-> 100,
                       colorFragmentProcessors |-> <<"ImageFP">>,
                       coverageFragmentProcessors |-> << >>]
       IN drawAtlasOps(draw(cv, Head(rectOps), glPaint, FALSE, env), Tail(rectOps), env)

\* Canvas::drawAtlas: matrix holds the matrix of each sprite; atlas is an image.
drawAtlas(cv, atlas, matrix, batches, env) ==
  IF atlas = NoImage \/ matrix = << >> THEN cv
  ELSE LET a == atlasOps(cv, matrix, << >>, batches)
       IN drawAtlasOps(a[1], a[2], env)

(***************************************************************************)
(* ProgramCache                                                            *)
(*                                                                         *)
(* A Program is named by the unique key it was created for. A call works   *)
(* on the two containers and logs the programs it deleted, the programs    *)
(* whose onReleaseGPU it called, and the keys it called createProgram for. *)
(***************************************************************************)
ProgramCacheObject ==
  [programLRU |-> programLRU, programMap |-> programMap,
   deleted |-> << >>, gpuReleased |-> << >>, compiled |-> << >>]

CommitProgramCache(pc) ==
  /\ programLRU' = pc.programLRU
  /\ programMap' = pc.programMap

PushFront(list, x) == <<x>> \o list
\* std::list::remove(x): every element equal to x
ListRemove(list, x) == SelectSeq(list, LAMBDA y : y # x)

\* ProgramCache::removeOldestProgram
\* removeOldestProgram that issues the GPU-side release whatever releaseGPU is.
removeOldestProgram_AlwaysReleasesGPU(pc, releaseGPU) ==
  LET program == pc.programLRU[Len(pc.programLRU)]
  IN [programLRU |-> SubSeq(pc.programLRU, 1, Len(pc.programLRU) - 1),
      programMap |-> [k \in DOMAIN pc.programMap \ {program} |-> pc.programMap[k]],
      deleted |-> Append(pc.deleted, program),
      gpuReleased |-> Append(pc.gpuReleased, program),
      compiled |-> pc.compiled]

removeOldestProgram(pc, releaseGPU) ==
  LET program == pc.programLRU[Len(pc.programLRU)]
  IN [programLRU |-> SubSeq(pc.programLRU, 1, Len(pc.programLRU) - 1),
      programMap |-> [k \in DOMAIN pc.programMap \ {program} |-> pc.programMap[k]],
      deleted |-> Append(pc.deleted, program),
      gpuReleased |-> IF releaseGPU THEN Append(pc.gpuReleased, program)
                      ELSE pc.gpuReleased,
      compiled |-> pc.compiled]

\* while (programLRU.size() > MAX_PROGRAM_COUNT) removeOldestProgram();
RECURSIVE RemoveOverflow(_)
RemoveOverflow(pc) ==
  IF Len(pc.programLRU) > MAX_PROGRAM_COUNT
  THEN RemoveOverflow(removeOldestProgram(pc, DefaultReleaseGPU))
  ELSE pc

\* getProgram that leaves a program it finds where it is in the list.
getProgram_HitKeepsOrder(pc, uniqueKey, created) ==
  IF uniqueKey \in DOMAIN pc.programMap
  THEN <<pc, pc.programMap[uniqueKey]>>
  ELSE IF ~created THEN <<[pc EXCEPT !.compiled = Append(@, uniqueKey)], NoProgram>>
  ELSE <<RemoveOverflow([pc EXCEPT
                           !.compiled = Append(@, uniqueKey),
                           !.programLRU = PushFront(@, uniqueKey),
                           !.programMap = [k \in DOMAIN @ \cup {uniqueKey} |->
                                             IF k = uniqueKey THEN uniqueKey ELSE @[k]]]),
         uniqueKey>>

\* getProgram that makes room for the new program before it creates it.
getProgram_EvictsBeforeCreate(pc, uniqueKey, created) ==
  IF uniqueKey \in DOMAIN pc.programMap
  THEN LET program == pc.programMap[uniqueKey]
       IN <<[pc EXCEPT !.programLRU = PushFront(ListRemove(@, program), program)],
            program>>
  ELSE LET room == IF Len(pc.programLRU) >= MAX_PROGRAM_COUNT
                   THEN removeOldestProgram(pc, DefaultReleaseGPU) ELSE pc
           pc1 == [room EXCEPT !.compiled = Append(@, uniqueKey)]
       IN IF ~created THEN <<pc1, NoProgram>>
          ELSE <<[pc1 EXCEPT
                    !.programLRU = PushFront(@, uniqueKey),
                    !.programMap = [k \in DOMAIN @ \cup {uniqueKey} |->
                                      IF k = uniqueKey THEN uniqueKey ELSE @[k]]],
                 uniqueKey>>

\* getProgram that creates the program anew when it finds one.
getProgram_HitRecompiles(pc, uniqueKey, created) ==
  LET found == uniqueKey \in DOMAIN pc.programMap
      pc1 == IF found
             THEN [pc EXCEPT !.programLRU = ListRemove(@, uniqueKey),
                             !.programMap = [k \in DOMAIN @ \ {uniqueKey} |-> @[k]],
                             !.deleted = Append(@, uniqueKey)]
             ELSE pc
  IN IF ~(found \/ created)
     THEN <<[pc1 EXCEPT !.compiled = Append(@, uniqueKey)], NoProgram>>
     ELSE <<RemoveOverflow([pc1 EXCEPT
                              !.compiled = Append(@, uniqueKey),
                              !.programLRU = PushFront(@, uniqueKey),
                              !.programMap = [k \in DOMAIN @ \cup {uniqueKey} |->
                                                IF k = uniqueKey THEN uniqueKey ELSE @[k]]]),
            uniqueKey>>

\* ProgramCache::getProgram for a ProgramInfo with the given unique key; created:
\* whether createProgram gives a program. Returns the cache and the program.
getProgram(pc, uniqueKey, created) ==
  IF uniqueKey \in DOMAIN pc.programMap
  THEN LET program == pc.programMap[uniqueKey]
       IN <<[pc EXCEPT !.programLRU = PushFront(ListRemove(@, program), program)],
            program>>
  ELSE IF ~created THEN <<[pc EXCEPT !.compiled = Append(@, uniqueKey)], NoProgram>>
  ELSE <<RemoveOverflow([pc EXCEPT
                           !.compiled = Append(@, uniqueKey),
                           !.programLRU = PushFront(@, uniqueKey),
                           !.programMap = [k \in DOMAIN @ \cup {uniqueKey} |->
                                             IF k = uniqueKey THEN uniqueKey ELSE @[k]]]),
         uniqueKey>>

\* ProgramCache::releaseAll
RECURSIVE releaseAllPrograms(_, _)
releaseAllPrograms(pc, releaseGPU) ==
  IF pc.programLRU = << >> THEN pc
  ELSE releaseAllPrograms(removeOldestProgram(pc, releaseGPU), releaseGPU)

(***************************************************************************)
(* The three objects as their constructors leave them                      *)
(***************************************************************************)
CacheConstructed ==
  /\ nonpurgeableResources = << >>
  /\ purgeableResources = << >>
  /\ recycleKeyMap = << >>
  /\ resourceKeyMap = << >>
  /\ totalBytes = 0
  /\ purgeableBytes = 0
  /\ maxBytes = DefaultMaxBytes
  /\ resources = [r \in ResourceIds |-> FreshResource]
  /\ keyHolders = [d \in KeyDomains |-> 0]
  /\ now = 0

\* The first canvas of the process: it draws the first clip id.
\* A thread that is not inside NextClipID and has made no call.
IdleThread == [pc |-> "idle", id |-> kDefaultClipID, returned |-> << >>]

CanvasConstructed ==
  LET n == NextClipID(kFirstUnreservedClipID)
      cv == NewCanvas(n.id)
  IN /\ state = cv.state
     /\ savedStateList = cv.savedStateList
     /\ clipID = cv.clipID
     /\ clipSurface = cv.clipSurface
     /\ nextID = n.nextID
     /\ issuedClipIDs = {n.id}
     /\ snapshots = << >>
     /\ threads = [t \in ThreadIds |-> IdleThread]

\* The surface of the canvas before anything is drawn.
SurfaceConstructed ==
  /\ ops = << >>
  /\ origin = "TopLeft"

ProgramCacheConstructed ==
  /\ programLRU = << >>
  /\ programMap = << >>
  /\ recency = << >>
  /\ programCalls = 0
  /\ programHits = 0

(***************************************************************************)
(* The resource cache and its callers                                      *)
(***************************************************************************)
Call(op, arg, result) == [op |-> op, arg |-> arg, result |-> result]

\* The observer: switched off (op = "off") it stays off; switched on it records the
\* observed calls and forgets the others.
Record(op, arg, result) ==
  /\ last' = IF last.op = "off" THEN last
             ELSE IF op \in ObservedCalls THEN Call(op, arg, result)
             ELSE Call("other", 0, 0)
  /\ UNCHANGED <<canvasVars, surfaceVars, programVars, threadVars>>

InitCache ==
  /\ CacheConstructed
  /\ CanvasConstructed
  /\ SurfaceConstructed
  /\ ProgramCacheConstructed
  /\ last = Call("off", 0, 0)

Cached(r) == resources[r].state = "cached"

DomainInUse(d) ==
  \/ keyHolders[d] > 0
  \/ \E r \in ResourceIds : resources[r].resourceKey = d

\* A producer creates a Resource and hands it to the cache.
AddResource(recycleKey, size) ==
  /\ \E r \in ResourceIds : resources[r].state = "uncached"
  /\ LET r == CHOOSE x \in ResourceIds :
                /\ resources[x].state = "uncached"
                /\ \A y \in ResourceIds : resources[y].state = "uncached" => x <= y
     IN /\ Commit(addResource(CacheState, r, recycleKey, size))
        /\ Record("addResource", recycleKey, r)
  /\ UNCHANGED <<keyHolders, now>>

\* A holder lets go of one shared_ptr; the cache is not told.
DropReference(r) ==
  /\ Cached(r)
  /\ resources[r].refs > 0
  /\ resources' = [resources EXCEPT ![r].refs = @ - 1]
  /\ Record("env", 0, 0)
  /\ UNCHANGED <<nonpurgeableResources, purgeableResources, recycleKeyMap, resourceKeyMap,
                 totalBytes, purgeableBytes, maxBytes, keyHolders, now>>

FindRecyclableResource(recycleKey) ==
  LET f == findRecyclableResource(CacheState, recycleKey)
  IN /\ Commit(f[1])
     /\ Record("findRecyclableResource", recycleKey, f[2])
     /\ UNCHANGED <<keyHolders, now>>

\* The caller looks up a key it holds strongly or weakly (or the empty key); a weak
\* handle is not counted by useCount.  The observer notes whether the key was indexed.
GetResource(d) ==
  /\ LET g == getResource(CacheState, d)
     IN /\ g[2] # NoResource => resources[g[2]].refs + 1 \in RefCounts
        /\ Commit(g[1])
        /\ Record("getResource", <<d, d \in DOMAIN resourceKeyMap>>, g[2])
  /\ UNCHANGED <<keyHolders, now>>

HasResource(d) ==
  /\ LET g == getUniqueResource(CacheState, d)
     IN /\ Commit(g[1])
        /\ Record("hasResource", <<d, d \in DOMAIN resourceKeyMap>>, g[2])
  /\ UNCHANGED <<keyHolders, now>>

\* Resource::assignResourceKey by a holder of the resource and of the key.
ChangeResourceKey(r, d) ==
  /\ Cached(r)
  /\ resources[r].refs > 0
  /\ keyHolders[d] > 0
  /\ resources[r].resourceKey # d
  /\ Commit(changeResourceKey(CacheState, r, d))
  /\ Record("changeResourceKey", <<r, d>>,
            [holder |-> IF d \in DOMAIN resourceKeyMap THEN resourceKeyMap[d]
                        ELSE NoResource,
             previousKey |-> resources[r].resourceKey])
  /\ UNCHANGED <<keyHolders, now>>

\* Resource::removeResourceKey by a holder of the resource.
RemoveResourceKey(r) ==
  /\ Cached(r)
  /\ resources[r].refs > 0
  /\ resources[r].resourceKey # 0
  /\ Commit(removeResourceKey(CacheState, r))
  /\ Record("removeResourceKey", r, 0)
  /\ UNCHANGED <<keyHolders, now>>

\* The observer notes how many resources the call released.
SetCacheLimit(bytesLimit) ==
  /\ Commit(setCacheLimit(CacheState, bytesLimit))
  /\ Record("setCacheLimit", bytesLimit,
            Cardinality({r \in ResourceIds : Cached(r)})
              - Cardinality({r \in ResourceIds : Cached(r)'}))
  /\ UNCHANGED <<keyHolders, now>>

\* The observer notes the two lists at the call.
PurgeNotUsedSince(purgeTime, recyclableResourcesOnly) ==
  /\ Commit(purgeNotUsedSince(CacheState, purgeTime, recyclableResourcesOnly))
  /\ Record("purgeNotUsedSince", <<purgeTime, recyclableResourcesOnly>>,
            [purgeableResources |-> purgeableResources,
             nonpurgeableResources |-> nonpurgeableResources])
  /\ UNCHANGED <<keyHolders, now>>

\* The observer notes the bool returned and the two byte counts at the call.
PurgeUntilMemoryTo(bytesLimit, recyclableResourcesOnly) ==
  LET c == purgeUntilMemoryTo(CacheState, bytesLimit, recyclableResourcesOnly)
  IN /\ Commit(c)
     /\ Record("purgeUntilMemoryTo", <<bytesLimit, recyclableResourcesOnly>>,
                [ok |-> c.totalBytes <= bytesLimit, totalBytes |-> totalBytes,
                 purgeableBytes |-> purgeableBytes])
     /\ UNCHANGED <<keyHolders, now>>

ReleaseAll ==
  /\ Commit(releaseAll(CacheState))
  /\ Record("releaseAll", 0, 0)
  /\ UNCHANGED <<keyHolders, now>>

\* ResourceKey handles outside the cache: a new key on an unused domain, and the
\* destruction of a handle.
NewKey(d) ==
  /\ ~DomainInUse(d)
  /\ keyHolders' = [keyHolders EXCEPT ![d] = 1]
  /\ Record("newKey", d, 0)
  /\ UNCHANGED <<nonpurgeableResources, purgeableResources, recycleKeyMap, resourceKeyMap,
                 totalBytes, purgeableBytes, maxBytes, resources, now>>

DropKey(d) ==
  /\ keyHolders[d] > 0
  /\ keyHolders' = [keyHolders EXCEPT ![d] = @ - 1]
  /\ Record("dropKey", d, 0)
  /\ UNCHANGED <<nonpurgeableResources, purgeableResources, recycleKeyMap, resourceKeyMap,
                 totalBytes, purgeableBytes, maxBytes, resources, now>>

Tick ==
  /\ now + 1 \in Times
  /\ now' = now + 1
  /\ Record("env", 0, 0)
  /\ UNCHANGED <<nonpurgeableResources, purgeableResources, recycleKeyMap, resourceKeyMap,
                 totalBytes, purgeableBytes, maxBytes, resources, keyHolders>>

NextCache ==
  \/ \E k \in RecycleKeys : AddResource(k, SizeOf(k))
  \/ \E r \in ResourceIds : DropReference(r)
  \/ \E k \in RecycleKeys : FindRecyclableResource(k)
  \/ \E d \in Domains \cup {0} : GetResource(d)
  \/ \E d \in Domains \cup {0} : HasResource(d)
  \/ \E r \in ResourceIds, d \in Domains : ChangeResourceKey(r, d)
  \/ \E r \in ResourceIds : RemoveResourceKey(r)
  \/ \E b \in CacheLimits : SetCacheLimit(b)
  \/ \E t \in Times, only \in BOOLEAN : PurgeNotUsedSince(t, only)
  \/ \E b \in CacheLimits, only \in BOOLEAN : PurgeUntilMemoryTo(b, only)
  \/ ReleaseAll
  \/ \E d \in Domains : NewKey(d)
  \/ \E d \in Domains : DropKey(d)
  \/ Tick

SpecCache == InitCache /\ [][NextCache]_vars

\* The same cache with the observer switched on.
InitCacheCalls ==
  /\ CacheConstructed
  /\ CanvasConstructed
  /\ SurfaceConstructed
  /\ ProgramCacheConstructed
  /\ last = Call("init", 0, 0)

\* The observed cache runs within one reading of the clock (no Tick).
NextCacheCalls ==
  \/ \E k \in RecycleKeys : AddResource(k, SizeOf(k))
  \/ \E r \in ResourceIds : DropReference(r)
  \/ \E k \in RecycleKeys : FindRecyclableResource(k)
  \/ \E d \in Domains \cup {0} : GetResource(d)
  \/ \E d \in Domains \cup {0} : HasResource(d)
  \/ \E r \in ResourceIds, d \in Domains : ChangeResourceKey(r, d)
  \/ \E r \in ResourceIds : RemoveResourceKey(r)
  \/ \E b \in CacheLimits : SetCacheLimit(b)
  \/ \E t \in Times, only \in BOOLEAN : PurgeNotUsedSince(t, only)
  \/ \E b \in CacheLimits, only \in BOOLEAN : PurgeUntilMemoryTo(b, only)
  \/ ReleaseAll
  \/ \E d \in Domains : NewKey(d)
  \/ \E d \in Domains : DropKey(d)

SpecCacheCalls == InitCacheCalls /\ [][NextCacheCalls]_vars

\* The observed cache while the clock advances.
SpecCacheClock == InitCacheCalls /\ [][NextCache]_vars

\* The observed cache with keys of two domains, so that a resource can move from one
\* key to another; resources are added, looked up, given keys, released and purged.
NextKeys ==
  \/ \E k \in RecycleKeys : AddResource(k, SizeOf(k))
  \/ \E r \in ResourceIds : DropReference(r)
  \/ \E d \in KeyDomains \cup {0} : GetResource(d)
  \/ \E d \in KeyDomains \cup {0} : HasResource(d)
  \/ \E r \in ResourceIds, d \in KeyDomains : ChangeResourceKey(r, d)
  \/ \E r \in ResourceIds : RemoveResourceKey(r)
  \/ \E b \in CacheLimits : SetCacheLimit(b)
  \/ ReleaseAll
  \/ \E d \in KeyDomains : NewKey(d)
  \/ \E d \in KeyDomains : DropKey(d)

SpecKeys == InitCacheCalls /\ [][NextKeys]_vars

(***************************************************************************)
(* Properties of the resource cache                                        *)
(***************************************************************************)
TypeOKCache ==
  /\ Range(nonpurgeableResources) \subseteq ResourceIds
  /\ Range(purgeableResources) \subseteq ResourceIds
  /\ DOMAIN recycleKeyMap \subseteq RecycleKeys \ {0}
  /\ DOMAIN resourceKeyMap \subseteq Domains
  /\ maxBytes \in CacheLimits
  /\ now \in Times
  /\ \A r \in ResourceIds : resources[r].refs \in RefCounts

\* C1: every resource the cache holds is on exactly one of the two lists (once), and
\* the lists hold nothing but resources the cache holds.
C1_ExactlyOneList ==
  /\ \A r \in ResourceIds :
       Cached(r) =>
         Occurrences(nonpurgeableResources, r) + Occurrences(purgeableResources, r) = 1
  /\ \A r \in Range(nonpurgeableResources) \cup Range(purgeableResources) : Cached(r)

\* Both lists are in use, after a stay on the purgeable list ended by a new reference.
C1_Witness ==
  /\ Len(purgeableResources) = 1
  /\ Len(nonpurgeableResources) = 1
  /\ resources[nonpurgeableResources[1]].recycleKey # 0
  /\ resources[nonpurgeableResources[1]].lastUsedTime > 0
  /\ resources[nonpurgeableResources[1]].refs = 1

\* C2: totalBytes is the sum of the sizes of the resources on the two lists.
C2_TotalBytesIsSum ==
  totalBytes = SumSizes(resources, nonpurgeableResources)
               + SumSizes(resources, purgeableResources)

\* Two resources of different sizes are held, one on each list.
C2_Witness ==
  /\ Len(purgeableResources) = 1
  /\ Len(nonpurgeableResources) = 1
  /\ totalBytes = 3
  /\ now > 0

\* A step that is the call findRecyclableResource(K) / setCacheLimit(b), seen by the
\* observer.
IsFind(K) == last'.op = "findRecyclableResource" /\ last'.arg = K

IsSetCacheLimit(b) == last'.op = "setCacheLimit" /\ last'.arg = b

Unreferenced(r) ==
  /\ Cached(r)
  /\ resources[r].refs = 0
  /\ ~hasExternalReferences(CacheState, r)

\* The resources of K's bucket in front of r.
EarlierInBucket(K, r) ==
  LET list == recycleKeyMap[K]
  IN {list[i] : i \in {j \in DOMAIN list : \A n \in DOMAIN list : list[n] = r => j < n}}

\* C9 as stated: findRecyclableResource(K) returns r whenever r was added under K and
\* all its external references have been dropped.
C9_Original ==
  [][\A K \in RecycleKeys \ {0}, r \in ResourceIds :
       (IsFind(K) /\ Unreferenced(r) /\ resources[r].recycleKey = K)
         => last'.result = r]_vars

\* C9 amended: findRecyclableResource(K) returns r when r is unreferenced and no
\* resource in front of it in K's bucket is; it returns no resource that is held, and
\* nothing when the only resource under K is held.
C9_FindReturnsFirstUnreferenced ==
  [][\A K \in RecycleKeys \ {0} :
       IsFind(K) =>
         /\ \A r \in ResourceIds :
              (/\ Unreferenced(r)
               /\ resources[r].recycleKey = K
               /\ \A e \in EarlierInBucket(K, r) : ~Unreferenced(e))
                => /\ last'.result = r
                   /\ resources'[r].refs = 1
                   /\ r \in Range(nonpurgeableResources')
         /\ \A r \in ResourceIds :
              (Cached(r) /\ resources[r].refs > 0) => last'.result # r
         /\ \A r \in ResourceIds :
              (K \in DOMAIN recycleKeyMap /\ recycleKeyMap[K] = <<r>> /\ resources[r].refs > 0)
                => last'.result = NoResource]_vars

\* findRecyclableResource has handed out a resource of a bucket of two.
C9_Witness ==
  /\ last.op = "findRecyclableResource"
  /\ last.result # NoResource
  /\ last.arg \in DOMAIN recycleKeyMap
  /\ Len(recycleKeyMap[last.arg]) = 2
  /\ resources[last.result].refs = 1

\* What setCacheLimit(0) is said to do.
EvictsEveryPurgeable ==
  /\ \A r \in ResourceIds : (Cached(r) /\ resources[r].refs = 0) => ~Cached(r)'
  /\ \A r \in ResourceIds :
       (Cached(r) /\ resources[r].refs > 0) => resources'[r] = resources[r]
  /\ totalBytes' = SumSizes(resources', nonpurgeableResources')
  /\ purgeableResources' = << >>
  /\ purgeableBytes' = 0

\* C10 as stated: whatever the limit was before.
C10_Original == [][IsSetCacheLimit(0) => EvictsEveryPurgeable]_vars

\* C10 amended: when the limit was not 0 already.
C10_SetCacheLimitZero ==
  [][(IsSetCacheLimit(0) /\ maxBytes # 0) => EvictsEveryPurgeable]_vars

\* setCacheLimit(0) has evicted something and a referenced resource has survived.
C10_Witness ==
  /\ last.op = "setCacheLimit"
  /\ last.arg = 0
  /\ maxBytes = 0
  /\ Len(nonpurgeableResources) = 1
  /\ totalBytes = SizeOf(resources[nonpurgeableResources[1]].recycleKey)
  /\ last.result > 0

\* A step that is one of the purge calls, seen by the observer.
IsPurge == last'.op \in {"setCacheLimit", "purgeNotUsedSince", "purgeUntilMemoryTo"}

PurgeableAreUnreferenced ==
  \A r \in Range(purgeableResources) : Cached(r) /\ resources[r].refs = 0

\* C11: every member of the purgeable list has no external strong reference, and no
\* purge call (setCacheLimit, purgeUntilMemoryTo, purgeNotUsedSince, with either
\* recyclableResourcesOnly) releases or alters a resource that has one when the call
\* is made: it stays cached on the nonpurgeable list, whatever the limit.
C11_PurgeSparesReferenced ==
  [][/\ PurgeableAreUnreferenced
     /\ PurgeableAreUnreferenced'
     /\ IsPurge =>
          \A r \in ResourceIds :
            (Cached(r) /\ resources[r].refs > 0)
              => /\ resources'[r] = resources[r]
                 /\ r \in Range(nonpurgeableResources')
                 /\ totalBytes' >= resources[r].size]_vars

\* setCacheLimit(0) has released a resource and left the cache above its limit, because
\* the resource that remains is referenced.
C11_Witness ==
  /\ last.op = "setCacheLimit"
  /\ last.arg = 0
  /\ last.result > 0
  /\ totalBytes > maxBytes
  /\ \E r \in ResourceIds : Cached(r) /\ resources[r].refs > 0

\* A step that is a lookup of the key d, seen by the observer.
IsLookup(d) == last'.op \in {"getResource", "hasResource"} /\ last'.arg[1] = d

\* C12: getResource and hasResource find the resource indexed under a key exactly
\* while the key has external references.  The first lookup after the last of them
\* is dropped returns nothing, removes the key from the index and clears it on the
\* resource, which stays cached on its list and in its recycle bucket, where
\* findRecyclableResource finds an unreferenced resource.  A lookup of a key that is
\* not indexed fails, and a key enters the index only by changeResourceKey.
C12_LookupNeedsKeyReferences ==
  [][\A d \in Domains :
       /\ (d \notin DOMAIN resourceKeyMap /\ d \in DOMAIN resourceKeyMap')
            => last'.op = "changeResourceKey"
       /\ IsLookup(d) =>
            IF d \notin DOMAIN resourceKeyMap
            THEN /\ last'.result = NoResource
                 /\ d \notin DOMAIN resourceKeyMap'
            ELSE LET r == resourceKeyMap[d]
                 IN IF keyHolders[d] > 0
                    THEN /\ last'.result = r
                         /\ resourceKeyMap' = resourceKeyMap
                         /\ resources'[r].resourceKey = d
                    ELSE /\ last'.result = NoResource
                         /\ d \notin DOMAIN resourceKeyMap'
                         /\ resources'[r] = [resources[r] EXCEPT !.resourceKey = 0]
                         /\ resources'[r].state = "cached"
                         /\ nonpurgeableResources' = nonpurgeableResources
                         /\ purgeableResources' = purgeableResources
                         /\ recycleKeyMap' = recycleKeyMap
                         /\ (resources[r].recycleKey # 0 /\ resources[r].refs = 0)
                              => /\ r \in Range(recycleKeyMap'[resources[r].recycleKey])
                                 /\ findRecyclableResource(CacheState',
                                       resources[r].recycleKey)[2] # NoResource]_vars

\* A lookup of an indexed key whose references were all dropped has returned nothing
\* and cleared the key of a resource that is still in its recycle bucket.
C12_Witness ==
  /\ last.op \in {"getResource", "hasResource"}
  /\ last.arg = <<1, TRUE>>
  /\ last.result = NoResource
  /\ keyHolders[1] = 0
  /\ 1 \notin DOMAIN resourceKeyMap
  /\ \E r \in ResourceIds :
       /\ Cached(r)
       /\ resources[r].resourceKey = 0
       /\ resources[r].recycleKey # 0
       /\ r \in Range(recycleKeyMap[resources[r].recycleKey])

(***************************************************************************)
(* Properties of the resource cache under the clock                        *)
(***************************************************************************)
\* The unreferenced resources of K's bucket.
Candidates(K) ==
  IF K \in DOMAIN recycleKeyMap
  THEN {r \in Range(recycleKeyMap[K]) : Unreferenced(r)} ELSE {}

\* C21 as stated: of several unreferenced resources under K that wait on the
\* purgeable list, findRecyclableResource(K) returns the one used last.
C21_Original ==
  [][\A K \in RecycleKeys \ {0} :
       IsFind(K) =>
         \A r \in Candidates(K), e \in Candidates(K) :
           (/\ r \in Range(purgeableResources)
            /\ e \in Range(purgeableResources)
            /\ resources[e].lastUsedTime < resources[r].lastUsedTime)
             => last'.result # e]_vars

\* C21 amended: of several unreferenced resources under K, findRecyclableResource(K)
\* returns the one added to the cache first, whenever each was used last; after the
\* call it is referenced and on the nonpurgeable list, no longer on the purgeable
\* list nor counted in purgeableBytes, and the other candidates stay where they were.
C21_FindReturnsFirstAdded ==
  [][\A K \in RecycleKeys \ {0} :
       (IsFind(K) /\ Candidates(K) # {}) =>
         LET r == last'.result
         IN /\ r \in Candidates(K)
            /\ EarlierInBucket(K, r) \cap Candidates(K) = {}
            /\ r \in Range(nonpurgeableResources')
            /\ r \notin Range(purgeableResources')
            /\ purgeableBytes' = purgeableBytes
                                   - (IF r \in Range(purgeableResources)
                                      THEN resources[r].size ELSE 0)
            /\ \A e \in Candidates(K) \ {r} : resources'[e] = resources[e]]_vars

\* findRecyclableResource has returned a resource and left on the purgeable list
\* another one of the same bucket that was used later.
C21_Witness ==
  /\ last.op = "findRecyclableResource"
  /\ last.result # NoResource
  /\ \E e \in Range(purgeableResources) :
       /\ resources[e].recycleKey = last.arg
       /\ resources[e].lastUsedTime > resources[last.result].lastUsedTime
       /\ resources[e].refs = 0
  /\ last.result \in Range(nonpurgeableResources)

\* A step that purges down to L bytes: purgeUntilMemoryTo(L) or a setCacheLimit(L)
\* that lowers the limit.
IsPurgeTo(L) ==
  \/ last'.op = "purgeUntilMemoryTo" /\ last'.arg = <<L, FALSE>>
  \/ last'.op = "setCacheLimit" /\ last'.arg = L /\ L < maxBytes

\* No unreferenced resource waits on the nonpurgeable list.
NoneWaiting == \A r \in Range(nonpurgeableResources) : resources[r].refs > 0

\* The bytes of the purgeable resources used less recently than the i-th.
BytesBehind(i) ==
  SumSizes(resources, SubSeq(purgeableResources, i + 1, Len(purgeableResources)))

\* C22: setCacheLimit(L) with L below the limit, and purgeUntilMemoryTo(L), evict
\* purgeable resources from the least recently used on and stop as soon as
\* totalBytes <= L: a purgeable resource stays when evicting the ones used less
\* recently brings totalBytes to L or below; purgeUntilMemoryTo returns true exactly
\* when totalBytes <= L at return.
C22_StopsAtLimit ==
  [][\A L \in CacheLimits :
       (IsPurgeTo(L) /\ NoneWaiting) =>
         /\ \A i \in DOMAIN purgeableResources :
              totalBytes - BytesBehind(i) <= L
                => resources'[purgeableResources[i]].state = "cached"
         /\ last'.op = "purgeUntilMemoryTo" => (last'.result.ok <=> totalBytes' <= L)]_vars

\* purgeUntilMemoryTo(2) was called with 4 bytes cached, all of them purgeable, and
\* has left nothing.
C22_Witness ==
  /\ last.op = "purgeUntilMemoryTo"
  /\ last.arg = <<2, FALSE>>
  /\ last.result.totalBytes = 4
  /\ last.result.purgeableBytes = 4
  /\ last.result.ok
  /\ totalBytes = 0

\* A purge step that is not restricted to recyclable resources.
IsUnrestrictedPurge ==
  \/ last'.op = "setCacheLimit"
  \/ last'.op \in {"purgeNotUsedSince", "purgeUntilMemoryTo"} /\ ~last'.arg[2]

\* The resources a purge pass finds purgeable: those on the purgeable list and the
\* unreferenced ones with a recycle key that it moves there, stamped with the clock.
PurgeableAtPass ==
  {r \in ResourceIds :
     Cached(r) /\ resources[r].refs = 0 /\ resources[r].recycleKey # 0}
TimeAtPass(r) ==
  IF r \in Range(purgeableResources) THEN resources[r].lastUsedTime ELSE now

\* C23: the purgeable list is ordered by lastUsedTime, the most recent at the front;
\* in a purge that is not restricted to recyclable resources no purgeable resource
\* that stays was used earlier than one that is evicted; purgeNotUsedSince(t) evicts
\* exactly the purgeable resources with lastUsedTime < t.
C23_PurgeInLRUOrder ==
  [][/\ \A i \in DOMAIN purgeableResources', j \in DOMAIN purgeableResources' :
          i < j => resources'[purgeableResources'[i]].lastUsedTime
                     >= resources'[purgeableResources'[j]].lastUsedTime
     /\ IsUnrestrictedPurge =>
          \A e \in PurgeableAtPass, k \in PurgeableAtPass :
            (resources'[e].state # "cached" /\ resources'[k].state = "cached")
              => /\ TimeAtPass(k) >= TimeAtPass(e)
                 /\ resources'[k].lastUsedTime = TimeAtPass(k)
                 /\ k \in Range(purgeableResources')
     /\ \A t \in Times :
          (last'.op = "purgeNotUsedSince" /\ last'.arg = <<t, FALSE>>) =>
            \A r \in PurgeableAtPass :
              resources'[r].state # "cached" <=> TimeAtPass(r) < t]_vars

\* purgeNotUsedSince(1) has found two resources on the purgeable list, evicted the
\* one at the back and kept the one at the front, which was used at time 1.
C23_Witness ==
  /\ last.op = "purgeNotUsedSince"
  /\ last.arg = <<1, FALSE>>
  /\ Len(last.result.purgeableResources) = 2
  /\ purgeableResources = <<last.result.purgeableResources[1]>>
  /\ resources[last.result.purgeableResources[1]].lastUsedTime = 1
  /\ resources[last.result.purgeableResources[2]].state = "uncached"

\* A call of purgeNotUsedSince or purgeUntilMemoryTo, seen by the observer.
IsPurgePass == last'.op \in {"purgeNotUsedSince", "purgeUntilMemoryTo"}

\* The resources without an external strong reference and without a recycle key.
Keyless == {r \in ResourceIds :
              Cached(r) /\ resources[r].refs = 0 /\ resources[r].recycleKey = 0}

\* The statement of C24 as it was made: a purge with recyclableResourcesOnly = true
\* leaves the unreferenced resources without a recycle key in the cache.
C24_Original ==
  [][(IsPurgePass /\ last'.arg[2]) =>
       \A r \in Keyless :
         /\ resources'[r].state = "cached"
         /\ totalBytes' >= resources[r].size]_vars

\* C24: a purge with recyclableResourcesOnly = true leaves alone the purgeable
\* resources whose resource key is still held outside the cache: they stay on the
\* purgeable list, unaltered and counted in totalBytes.  An unreferenced resource
\* without a recycle key is released by every purge pass, with either flag.
C24_RecyclableOnlySparesKeyHeld ==
  [][/\ (IsPurgePass /\ last'.arg[2]) =>
          \A r \in PurgeableAtPass :
            hasExternalReferences(CacheState, r)
              => /\ resources'[r].state = "cached"
                 /\ r \in Range(purgeableResources')
                 /\ resources'[r].lastUsedTime = TimeAtPass(r)
                 /\ totalBytes' >= resources[r].size
     /\ IsPurgePass =>
          \A r \in Keyless :
            /\ resources'[r].state = "uncached"
            /\ totalBytes' <= totalBytes - resources[r].size]_vars

\* purgeNotUsedSince(1, true) at time 1 has kept a purgeable resource last used at
\* time 0, whose resource key is held outside, and has released the other resource,
\* which was unreferenced on the nonpurgeable list and had no recycle key.
C24_Witness ==
  /\ last.op = "purgeNotUsedSince"
  /\ last.arg = <<1, TRUE>>
  /\ now = 1
  /\ \E s \in Range(last.result.purgeableResources) :
       /\ s \in Range(purgeableResources)
       /\ resources[s].lastUsedTime = 0
       /\ hasExternalReferences(CacheState, s)
  /\ \E r \in Range(last.result.nonpurgeableResources) :
       resources[r].state = "uncached"

\* The resources that have lost their last external strong reference and are still
\* on the nonpurgeable list.
Waiting == {r \in ResourceIds :
              /\ Cached(r)
              /\ resources[r].refs = 0
              /\ r \in Range(nonpurgeableResources)}

\* A step in which the cache accounts for its unreferenced resources: a purge call, or
\* setCacheLimit with a limit other than the current one.
IsAccountingPass ==
  \/ IsPurgePass
  \/ last'.op = "setCacheLimit" /\ last'.arg # maxBytes

\* A step that is a lookup, or setCacheLimit with the current limit.
IsLookupPass ==
  \/ last'.op \in {"findRecyclableResource", "getResource", "hasResource"}
  \/ last'.op = "setCacheLimit" /\ last'.arg = maxBytes

\* The statement of C25 as it was made: the next purge or lookup pass moves a waiting
\* resource off the nonpurgeable list (to the purgeable list, or further).
C25_Original ==
  [][(IsAccountingPass \/ IsLookupPass) =>
       \A r \in Waiting :
         resources[r].recycleKey # 0 =>
           \/ r \in Range(purgeableResources')
           \/ resources'[r].state = "uncached"
           \/ resources'[r].refs > 0]_vars

\* C25: dropping the last external reference of a resource changes neither list nor
\* totalBytes nor purgeableBytes.  The resource leaves the nonpurgeable list in the next
\* purgeNotUsedSince, purgeUntilMemoryTo or setCacheLimit to a different limit: to the
\* purgeable list (or out of the cache by the same purge) when it has a recycle key,
\* out of the cache when it has none.  findRecyclableResource, getResource, hasResource
\* and setCacheLimit to the current limit move nothing to the purgeable list.
C25_LazyOnPurgeOnly ==
  [][/\ (\E r \in ResourceIds :
           /\ Cached(r)
           /\ resources'[r].state = "cached"
           /\ resources'[r].refs < resources[r].refs)
          => /\ nonpurgeableResources' = nonpurgeableResources
             /\ purgeableResources' = purgeableResources
             /\ totalBytes' = totalBytes
             /\ purgeableBytes' = purgeableBytes
     /\ IsAccountingPass =>
          \A r \in Waiting :
            /\ r \notin Range(nonpurgeableResources')
            /\ IF resources[r].recycleKey = 0
               THEN resources'[r].state = "uncached"
               ELSE \/ resources'[r].state = "uncached"
                    \/ /\ r \in Range(purgeableResources')
                       /\ resources'[r].lastUsedTime = now
     /\ IsLookupPass =>
          /\ Range(purgeableResources') \subseteq Range(purgeableResources)
          /\ purgeableBytes' <= purgeableBytes
          /\ \A r \in Waiting :
               /\ r \in Range(nonpurgeableResources')
               /\ resources'[r].state = "cached"]_vars

\* A lookup has left a resource with a recycle key and no external strong reference
\* on the nonpurgeable list.
C25_Witness ==
  /\ last.op \in {"getResource", "hasResource"}
  /\ \E r \in ResourceIds :
       /\ Cached(r)
       /\ resources[r].refs = 0
       /\ resources[r].recycleKey # 0
       /\ r \in Range(nonpurgeableResources)
  /\ purgeableResources = << >>

\* C26: after every operation purgeableBytes is the sum of the sizes of exactly the
\* resources on the purgeable list; it grows by the sizes of the resources that enter
\* the list and shrinks by the sizes of those that leave it, by a new reference or by
\* a purge; it is 0 after releaseAll.
C26_PurgeableBytesIsSum ==
  [][/\ purgeableBytes' = SumSizes(resources', purgeableResources')
     /\ purgeableBytes' - purgeableBytes
          = SumSizes(resources',
                     SelectSeq(purgeableResources',
                               LAMBDA r : r \notin Range(purgeableResources)))
            - SumSizes(resources,
                       SelectSeq(purgeableResources,
                                 LAMBDA r : r \notin Range(purgeableResources')))
     /\ last'.op = "releaseAll" =>
          purgeableBytes' = 0 /\ purgeableResources' = << >>]_vars

\* purgeUntilMemoryTo has found two resources of 4 bytes on the purgeable list and has
\* released one of them, so purgeableBytes is the size of the other.
C26_Witness ==
  /\ last.op = "purgeUntilMemoryTo"
  /\ last.result.purgeableBytes = 4
  /\ Len(purgeableResources) = 1
  /\ purgeableBytes = resources[purgeableResources[1]].size
  /\ purgeableBytes > 0

\* A step that is changeResourceKey(r, d) while the key d is held by the resource
\* old, another one, which has no external strong reference.
IsClaimOfHeldKey(r, d, old) ==
  /\ last'.op = "changeResourceKey"
  /\ last'.arg = <<r, d>>
  /\ d \in DOMAIN resourceKeyMap
  /\ resourceKeyMap[d] = old
  /\ old # r
  /\ resources[old].refs = 0

\* The statement of C32 as it was made: the older holder of the key is evicted.
C32_Original ==
  [][\A r \in ResourceIds, d \in Domains, old \in ResourceIds :
       IsClaimOfHeldKey(r, d, old) =>
         /\ resources'[old].state = "uncached"
         /\ old \notin Range(nonpurgeableResources') \cup Range(purgeableResources')
         /\ totalBytes' = totalBytes - resources[old].size]_vars

\* C32: when a resource is assigned a resource key that an older cached resource
\* without external strong references holds, the older resource loses the key and
\* its entry in the index of resource keys, and nothing else: it stays in the cache,
\* on its list and in the index of recycle keys, and totalBytes and purgeableBytes
\* are as before.
C32_ClaimedKeyIsTakenOnly ==
  [][\A r \in ResourceIds, d \in Domains, old \in ResourceIds :
       IsClaimOfHeldKey(r, d, old) =>
         /\ resources'[old] = [resources[old] EXCEPT !.resourceKey = 0]
         /\ resources'[old].state = "cached"
         /\ resourceKeyMap'[d] = r
         /\ resources'[r].resourceKey = d
         /\ nonpurgeableResources' = nonpurgeableResources
         /\ purgeableResources' = purgeableResources
         /\ recycleKeyMap' = recycleKeyMap
         /\ totalBytes' = totalBytes
         /\ purgeableBytes' = purgeableBytes]_vars

\* A resource has taken the key of a resource on the purgeable list, which is still
\* there without its key.
C32_Witness ==
  /\ last.op = "changeResourceKey"
  /\ last.result.holder # NoResource
  /\ last.result.holder # last.arg[1]
  /\ last.result.holder \in Range(purgeableResources)
  /\ resources[last.result.holder].resourceKey = 0
  /\ resources[last.result.holder].refs = 0
  /\ resourceKeyMap[last.arg[2]] = last.arg[1]

\* C36: findRecyclableResource returns only a resource that, at the call, is cached
\* under the recycle key asked for, has no strong reference besides the cache's own,
\* and whose identity key, if it has one, is held by nobody else; the caller becomes
\* its only holder, and the resource is on the non-purgeable list afterwards.
C36_RecycledIsUnheld ==
  [][\A K \in RecycleKeys, r \in ResourceIds :
       (IsFind(K) /\ last'.result = r) =>
         /\ Cached(r)
         /\ resources[r].recycleKey = K
         /\ resources[r].refs = 0
         /\ ~hasExternalReferences(CacheState, r)
         /\ resources'[r].refs = 1
         /\ resources'[r].cachedList = "nonpurgeableResources"]_vars

\* findRecyclableResource has handed out a resource that carries an identity key
\* nobody holds any more, while another resource of the bucket was passed over.
C36_Witness ==
  /\ last.op = "findRecyclableResource"
  /\ last.result # NoResource
  /\ resources[last.result].resourceKey # 0
  /\ keyHolders[resources[last.result].resourceKey] = 0
  /\ resources[last.result].refs = 1
  /\ Len(recycleKeyMap[last.arg]) = 2
  /\ recycleKeyMap[last.arg][1] # last.result

\* The index of resource keys and the keys the resources carry agree: the index maps
\* a domain to a cached resource that carries the key of that domain, and a resource
\* that carries a key is the one the index maps the key's domain to.
KeyIndexAgrees ==
  /\ \A d \in DOMAIN resourceKeyMap :
       /\ Cached(resourceKeyMap[d])
       /\ resources[resourceKeyMap[d]].resourceKey = d
  /\ \A r \in ResourceIds :
       resources[r].resourceKey # 0 =>
         /\ resources[r].resourceKey \in DOMAIN resourceKeyMap
         /\ resourceKeyMap[resources[r].resourceKey] = r

\* C37: after every step at most one resource carries the key of a domain, and it is
\* the cached resource the index maps the domain to; changeResourceKey(r, d) leaves d
\* mapped to r, which carries d, takes the key from the resource that held d, and
\* takes the key r carried before out of the index.
C37_OneResourcePerKey ==
  [][/\ KeyIndexAgrees'
     /\ \A r1 \in ResourceIds, r2 \in ResourceIds :
          (resources'[r1].resourceKey # 0
             /\ resources'[r1].resourceKey = resources'[r2].resourceKey) => r1 = r2
     /\ \A r \in ResourceIds, d \in KeyDomains :
          (last'.op = "changeResourceKey" /\ last'.arg = <<r, d>>) =>
            /\ resourceKeyMap'[d] = r
            /\ resources'[r].resourceKey = d
            /\ \A old \in ResourceIds :
                 (d \in DOMAIN resourceKeyMap /\ resourceKeyMap[d] = old /\ old # r)
                   => resources'[old].resourceKey = 0
            /\ resources[r].resourceKey # 0 =>
                 resources[r].resourceKey \notin DOMAIN resourceKeyMap'
            /\ DOMAIN resourceKeyMap' = {d} \cup
                 {x \in DOMAIN resourceKeyMap : resourceKeyMap[x] # r}]_vars

\* A resource that carried the key of one domain has been given the key of another,
\* which a second resource held: the second resource is cached without a key, and
\* the first is the only resource in the index, under its new key.
C37_Witness ==
  /\ last.op = "changeResourceKey"
  /\ last.result.previousKey # 0
  /\ last.result.previousKey # last.arg[2]
  /\ last.result.holder # NoResource
  /\ last.result.holder # last.arg[1]
  /\ Cached(last.result.holder)
  /\ resources[last.result.holder].resourceKey = 0
  /\ DOMAIN resourceKeyMap = {last.arg[2]}
  /\ resourceKeyMap[last.arg[2]] = last.arg[1]

\* The resources on one of the two lists of the cache.
Listed == Range(nonpurgeableResources) \cup Range(purgeableResources)

\* C39: every resource the index of recycle keys or the index of resource keys
\* refers to is held by the cache on one of its two lists, under the key it is
\* indexed by; the index of recycle keys has no empty bucket and no resource twice;
\* and after releaseAll both indexes are empty.
C39_IndexesHoldCachedOnly ==
  /\ \A K \in DOMAIN recycleKeyMap :
       /\ recycleKeyMap[K] # << >>
       /\ \A r \in Range(recycleKeyMap[K]) :
            /\ Cached(r)
            /\ r \in Listed
            /\ resources[r].recycleKey = K
            /\ Occurrences(recycleKeyMap[K], r) = 1
  /\ \A d \in DOMAIN resourceKeyMap :
       /\ Cached(resourceKeyMap[d])
       /\ resourceKeyMap[d] \in Listed
  /\ last.op = "releaseAll" => (recycleKeyMap = << >> /\ resourceKeyMap = << >>)

\* A purge has released one of the two resources of a bucket; the other, which is
\* held, is still in the bucket and carries a resource key the index refers to.
C39_Witness ==
  /\ last.op = "purgeNotUsedSince"
  /\ \E r \in Range(last.result.purgeableResources), o \in ResourceIds :
       /\ ~Cached(r)
       /\ resources[o].recycleKey # 0
       /\ recycleKeyMap[resources[o].recycleKey] = <<o>>
       /\ resources[o].resourceKey # 0
       /\ resourceKeyMap[resources[o].resourceKey] = o

\* C40: every resource on the purgeable list has a valid recycle key; a purge pass
\* (purgeNotUsedSince or purgeUntilMemoryTo) that finds a resource on the
\* nonpurgeable list without a strong reference takes it off that list, and if it
\* has no recycle key releases it: it is no longer cached, is on neither list, and
\* totalBytes is lowered by its size.
C40_PurgeableHaveRecycleKey ==
  [][/\ \A r \in Range(purgeableResources') : resources'[r].recycleKey # 0
     /\ IsPurgePass =>
          \A r \in Range(nonpurgeableResources) :
            resources[r].refs = 0 =>
              /\ r \notin Range(nonpurgeableResources')
              /\ resources[r].recycleKey = 0 =>
                   /\ resources'[r].state = "uncached"
                   /\ r \notin Range(purgeableResources')
                   /\ totalBytes' <= totalBytes - resources[r].size]_vars

\* A purge pass found two unreferenced resources on the nonpurgeable list: the one
\* with a recycle key is on the purgeable list now, the one without is released.
C40_Witness ==
  /\ last.op = "purgeNotUsedSince"
  /\ Len(last.result.nonpurgeableResources) = 2
  /\ nonpurgeableResources = << >>
  /\ Len(purgeableResources) = 1
  /\ resources[purgeableResources[1]].recycleKey # 0
  /\ \E r \in Range(last.result.nonpurgeableResources) : resources[r].state = "uncached"
  /\ totalBytes = resources[purgeableResources[1]].size
  /\ purgeableBytes = totalBytes

(***************************************************************************)
(* The canvas and its caller                                               *)
(***************************************************************************)
\* The observer notes the call; the calls no property looks at are noted as "other".
RecordCanvas(op, arg, result) ==
  /\ last' = Call(op, arg, result)
  /\ UNCHANGED <<cacheVars, surfaceVars, programVars, threadVars>>

InitCanvas ==
  /\ CacheConstructed
  /\ CanvasConstructed
  /\ SurfaceConstructed
  /\ ProgramCacheConstructed
  /\ last = Call("init", 0, "")

Top(stack) == stack[Len(stack)]
Pop(stack) == SubSeq(stack, 1, Len(stack) - 1)

Save ==
  /\ Len(savedStateList) < MaxDepth
  /\ CommitCanvas(save(CanvasObject))
  /\ snapshots' = Append(snapshots, [state |-> state, depth |-> Len(savedStateList)])
  /\ RecordCanvas("other", 0, "")
  /\ UNCHANGED <<nextID, issuedClipIDs>>

\* The observer notes the depth of the stack before the call and whether the call
\* changed the current state.
Restore ==
  /\ CommitCanvas(restore(CanvasObject))
  /\ snapshots' = IF snapshots = << >> THEN snapshots ELSE Pop(snapshots)
  /\ RecordCanvas("restore", Len(savedStateList),
                  IF state' = state THEN "same" ELSE "changed")
  /\ UNCHANGED <<nextID, issuedClipIDs>>

SetMatrix(matrix) ==
  /\ CommitCanvas(setMatrix(CanvasObject, matrix))
  /\ RecordCanvas("other", 0, "")
  /\ UNCHANGED <<nextID, issuedClipIDs, snapshots>>

ResetMatrix ==
  /\ CommitCanvas(resetMatrix(CanvasObject))
  /\ RecordCanvas("other", 0, "")
  /\ UNCHANGED <<nextID, issuedClipIDs, snapshots>>

Concat(matrix) ==
  /\ CommitCanvas(concat(CanvasObject, matrix))
  /\ RecordCanvas("other", 0, "")
  /\ UNCHANGED <<nextID, issuedClipIDs, snapshots>>

SetAlpha(newAlpha) ==
  /\ CommitCanvas(setAlpha(CanvasObject, newAlpha))
  /\ RecordCanvas("other", 0, "")
  /\ UNCHANGED <<nextID, issuedClipIDs, snapshots>>

SetBlendMode(blendMode) ==
  /\ CommitCanvas(setBlendMode(CanvasObject, blendMode))
  /\ RecordCanvas("other", 0, "")
  /\ UNCHANGED <<nextID, issuedClipIDs, snapshots>>

\* The observer notes whether the clip geometry changed.
ClipRect(rect) ==
  /\ Cardinality(issuedClipIDs) < MaxClipIDs
  /\ LET n == NextClipID(nextID)
     IN /\ CommitCanvas(clipRect(CanvasObject, rect, n.id))
        /\ nextID' = n.nextID
        /\ issuedClipIDs' = issuedClipIDs \cup {n.id}
  /\ RecordCanvas("clipRect", 0, IF state'.clip = state.clip THEN "same" ELSE "changed")
  /\ UNCHANGED snapshots

ClipPath(path) ==
  /\ Cardinality(issuedClipIDs) < MaxClipIDs
  /\ LET n == NextClipID(nextID)
     IN /\ CommitCanvas(clipPath(CanvasObject, path, n.id))
        /\ nextID' = n.nextID
        /\ issuedClipIDs' = issuedClipIDs \cup {n.id}
  /\ RecordCanvas("clipPath", 0, IF state'.clip = state.clip THEN "same" ELSE "changed")
  /\ UNCHANGED snapshots

\* A draw resolves the clip for the device bounds of its op. The observer notes
\* whether the mask tag differed from the current clip identity (1) or not (0), the
\* device bounds, and the treatment the draw got.
GetClipMask(deviceBounds, allocOK) ==
  LET m == getClipMask(CanvasObject, deviceBounds, allocOK)
  IN /\ CommitCanvas(m[1])
     /\ RecordCanvas("getClipMask",
                     [tagDiffers |-> IF clipID # state.clipID THEN 1 ELSE 0,
                      deviceBounds |-> deviceBounds],
                     m[2].treatment)
     /\ UNCHANGED <<nextID, issuedClipIDs, snapshots>>

\* Another canvas of the process is constructed (that of a mask surface, say): it
\* draws a clip id from the same counter.
ConstructOtherCanvas ==
  /\ Cardinality(issuedClipIDs) < MaxClipIDs
  /\ LET n == NextClipID(nextID)
     IN /\ nextID' = n.nextID
        /\ issuedClipIDs' = issuedClipIDs \cup {n.id}
  /\ RecordCanvas("other", 0, "")
  /\ UNCHANGED <<state, savedStateList, clipID, clipSurface, snapshots>>

\* The state stack and everything that changes a state.
NextCanvas ==
  \/ Save
  \/ Restore
  \/ \E m \in Matrices : SetMatrix(m)
  \/ ResetMatrix
  \/ \E m \in Matrices : Concat(m)
  \/ \E a \in Alphas : SetAlpha(a)
  \/ \E b \in BlendModes : SetBlendMode(b)
  \/ \E r \in Rects : ClipRect(r)
  \/ \E p \in Paths : ClipPath(p)

SpecCanvas == InitCanvas /\ [][NextCanvas]_vars

\* The clip, its identity and the cached mask, with draws that resolve the clip and
\* with other canvases drawing ids; alpha and blend mode stay as constructed.
NextClipMask ==
  \/ Save
  \/ Restore
  \/ \E m \in Matrices : SetMatrix(m)
  \/ ResetMatrix
  \/ \E m \in Matrices : Concat(m)
  \/ \E r \in Rects : ClipRect(r)
  \/ \E p \in Paths : ClipPath(p)
  \/ \E r \in Rects, ok \in BOOLEAN : GetClipMask(r, ok)
  \/ ConstructOtherCanvas

SpecClipMask == InitCanvas /\ [][NextClipMask]_vars

(***************************************************************************)
(* Canvas: draw calls                                                      *)
(***************************************************************************)
\* A draw call is made while fewer than MaxOps operations are queued on the surface.
MaxOps == 1

\* The observer notes the call, its arguments, the allocations that failed in it,
\* the strategies fillPath selected in it and the notices the surface got in it.
RecordDraw(op, arg, cv) ==
  /\ last' = Call(op, arg, [failed |-> cv.failed, strategies |-> cv.strategies,
                             notified |-> cv.notified])
  /\ UNCHANGED <<cacheVars, programVars, threadVars>>

CommitDraw(cv) ==
  /\ Len(ops) < MaxOps
  /\ CommitCanvas(cv)
  /\ ops' = cv.ops
  /\ UNCHANGED <<origin, nextID, issuedClipIDs, snapshots>>

\* The surface may have either origin.
InitDraw ==
  /\ CacheConstructed
  /\ CanvasConstructed
  /\ ProgramCacheConstructed
  /\ ops = << >>
  /\ origin \in Origins
  /\ last = Call("init", 0, "")

\* The paths, paints and backends of the fills: rects on and off the pixel
\* boundaries, the whole surface, a path of two runs and the empty path.
FillPaths == {{0, 1}, {1, 2}, Cells, {0, 2}, {}}
FillPaints ==
  {pt \in Paints : pt.imageFilter = "none" /\ pt.colorFilter # "ColorFilter"
                     /\ pt.style = "Fill"}
FillEnvs == {e \in Envs : e.imageFP /\ e.filterImage}
\* The fills: asRRect and the triangulation are asked of a path that is no rect only,
\* and an allocation fails only where the fill may ask for it.
FillCases ==
  {c \in [path : FillPaths, rRect : BOOLEAN, paint : FillPaints, env : FillEnvs] :
     /\ (asRect(c.path) \/ c.path = {}) => (~c.rRect /\ c.env.triangulates)
     /\ c.rRect => c.env.triangulates
     /\ ~c.env.maskTexture => ~c.env.triangulates
     /\ ~c.env.shaderFP => c.paint.shader # "none"}

DrawPath(path, rRect, paint, env) ==
  LET cv == drawPath(DrawObject, path, rRect, paint, env)
  IN /\ CommitDraw(cv)
     /\ RecordDraw("drawPath", [path |-> path, rRect |-> rRect, paint |-> paint,
                                 triangulates |-> env.triangulates], cv)

DrawRect(rect, paint, env) ==
  LET cv == drawRect(DrawObject, rect, paint, env)
  IN /\ CommitDraw(cv)
     /\ RecordDraw("drawRect", [path |-> rect, paint |-> paint], cv)

Clear(color, env) ==
  LET cv == clear(DrawObject, color, env)
  IN /\ CommitDraw(cv)
     /\ RecordDraw("clear", color, cv)

DrawShape(shape, paint, env) ==
  LET cv == drawShape(DrawObject, shape, paint, env)
  IN /\ CommitDraw(cv)
     /\ RecordDraw("drawShape", 0, cv)

\* The four overloads of drawImage that take a const Paint*.
DrawImage(image, paint, env) ==
  LET cv == drawImage(DrawObject, image, paint, env)
  IN /\ CommitDraw(cv)
     /\ RecordDraw("drawImage", 0, cv)

DrawImageSampling(image, paint, env) ==
  LET cv == drawImageSampling(DrawObject, image, paint, env)
  IN /\ CommitDraw(cv)
     /\ RecordDraw("drawImage", [overload |-> 1, paint |-> paint], cv)

DrawImageMatrix(image, matrix, paint, env) ==
  LET cv == drawImageMatrix(DrawObject, image, matrix, paint, env)
  IN /\ CommitDraw(cv)
     /\ RecordDraw("drawImage", 2, cv)

DrawImageLeftTop(image, left, paint, env) ==
  LET cv == drawImageLeftTop(DrawObject, image, left, paint, env)
  IN /\ CommitDraw(cv)
     /\ RecordDraw("drawImage", 3, cv)

DrawGlyphs(glyphs, hasColor, paint, env) ==
  LET cv == drawGlyphs(DrawObject, glyphs, hasColor, paint, env)
  IN /\ CommitDraw(cv)
     /\ RecordDraw("drawGlyphs", [glyphs |-> glyphs, paint |-> paint], cv)

DrawSimpleText(glyphs, x, hasColor, paint, env) ==
  LET cv == drawSimpleText(DrawObject, glyphs, x, hasColor, paint, env)
  IN /\ CommitDraw(cv)
     /\ RecordDraw("drawSimpleText", 0, cv)

DrawAtlas(atlas, matrix, batches, env) ==
  LET cv == drawAtlas(DrawObject, atlas, matrix, batches, env)
  IN /\ CommitDraw(cv)
     /\ RecordDraw("drawAtlas", 0, cv)

\* Canvas::flush: the surface submits what is queued.
Flush ==
  /\ ops # << >>
  /\ ops' = << >>
  /\ last' = Call("flush", 0, "")
  /\ UNCHANGED <<cacheVars, canvasVars, origin, programVars, threadVars>>

\* Fills under the clips, matrices, alphas and blend modes a caller sets.
NextFill ==
  \/ \E m \in Matrices : SetMatrix(m)
  \/ \E b \in BlendModes : SetBlendMode(b)
  \/ \E r \in {{0, 1}, {1, 2}} : ClipRect(r)
  \/ ClipPath({0, 2})
  \/ \E c \in FillCases : DrawPath(c.path, c.rRect, c.paint, c.env)
  \/ Flush

SpecFill == InitDraw /\ [][NextFill]_vars

\* The inputs of the draw calls: a paint that draws, one that draws nothing, one
\* with a shader, one with an image filter and a stroke; a shape that gives an op and
\* one that gives none; an image; runs of glyphs; the sprites of an atlas.
DrawPaints ==
  {DefaultPaint,
   [DefaultPaint EXCEPT !.alpha = 0],
   [DefaultPaint EXCEPT !.shader = "Shader"],
   [DefaultPaint EXCEPT !.imageFilter = "ImageFilter"],
   [DefaultPaint EXCEPT !.style = "Stroke", !.strokeWidth = 1]}
NoTriangulation == [AllSucceed EXCEPT !.triangulates = FALSE]
\* A paint and a backend: the shader and the image filter fail where the paint has
\* one, the other allocations fail under the default paint.
DrawCases ==
  {c \in [paint : DrawPaints, env : Envs] :
     /\ ~c.env.shaderFP => c.paint.shader # "none"
     /\ ~c.env.filterImage => c.paint.imageFilter # "none"
     /\ c.paint # DefaultPaint => (c.env = AllSucceed \/ ~c.env.shaderFP \/ ~c.env.filterImage)
     /\ ~c.env.triangulates => (c.env = NoTriangulation \/ ~c.env.maskTexture)}
\* The cases of a call that asks for no image processor, of one that makes no mask
\* texture, and of one that applies no image filter.
ShapeCases == {c \in DrawCases : c.env.triangulates /\ c.env.imageFP /\ c.env.maskTexture
                                   /\ c.paint.imageFilter = "none"}
PathCases == {c \in DrawCases : c.env.imageFP /\ c.paint.imageFilter = "none"
                                  /\ (~c.env.maskTexture => ~c.env.triangulates)}
ImageCases == {c \in DrawCases : c.env.triangulates /\ c.env.maskTexture}
GlyphCases == {c \in DrawCases : c.env.triangulates}
AtlasEnvs == {e \in Envs : e.triangulates /\ e.maskTexture /\ e.shaderFP /\ e.filterImage}
Sole == [paint |-> DefaultPaint, env |-> AllSucceed]

Shape == [bounds |-> {0, 1}, makesOp |-> TRUE]
Image == [width |-> PixelSize, alphaOnly |-> FALSE]
DrawShapes == {<<NoShape, Sole>>, <<[Shape EXCEPT !.makesOp = FALSE], Sole>>}
                \cup {<<Shape, c>> : c \in ShapeCases}
DrawImages == {<<NoImage, Sole>>} \cup {<<Image, c>> : c \in ImageCases}
DrawAlphaImages == {<<[Image EXCEPT !.alphaOnly = TRUE], c>> : c \in ImageCases}
ColorRun == <<[position |-> 0, hasImage |-> TRUE]>>
MixedRun ==
  <<[position |-> 0, hasImage |-> FALSE], [position |-> GlyphWidth, hasImage |-> TRUE]>>
DrawGlyphRuns ==
  {<<(<< >>), TRUE, Sole>>} \cup {<<ColorRun, TRUE, c>> : c \in GlyphCases}
    \cup {<<MixedRun, FALSE, c>> : c \in GlyphCases}
DrawSprites ==
  {<<(<< >>), TRUE>>, <<(<<Identity>>), FALSE>>,
   <<(<<Identity, MakeTrans(GlyphWidth)>>), TRUE>>,
   <<(<<Identity, MakeTrans(GlyphWidth)>>), FALSE>>}

\* Every draw call, under the clips, matrices, blend modes and saved states a caller
\* sets; the caller saves MaxDrawDepth states and clips MaxDrawClips times at most.
MaxDrawDepth == 1
MaxDrawClips == 1
NextDraw ==
  \/ Len(savedStateList) < MaxDrawDepth /\ Save
  \/ Restore
  \/ SetMatrix(Flip)
  \/ SetBlendMode("Src")
  \/ Cardinality(issuedClipIDs) <= MaxDrawClips /\ ClipPath({0, 2})
  \/ Clear(100, AllSucceed)
  \/ \E c \in ShapeCases, rect \in {{0, 1}, {}} : DrawRect(rect, c.paint, c.env)
  \/ \E c \in PathCases, path \in {{0, 2}, {}} : DrawPath(path, FALSE, c.paint, c.env)
  \/ \E d \in DrawShapes : DrawShape(d[1], d[2].paint, d[2].env)
  \/ \E d \in DrawImages \cup DrawAlphaImages : DrawImage(d[1], d[2].paint, d[2].env)
  \/ \E d \in DrawImages : DrawImageSampling(d[1], d[2].paint, d[2].env)
  \/ \E d \in DrawImages : DrawImageMatrix(d[1], MakeTrans(1), d[2].paint, d[2].env)
  \/ \E d \in DrawImages : DrawImageLeftTop(d[1], PixelSize, d[2].paint, d[2].env)
  \/ \E d \in DrawGlyphRuns : DrawGlyphs(d[1], d[2], d[3].paint, d[3].env)
  \/ \E c \in {TRUE, FALSE} : DrawSimpleText(MixedRun, 1, c, DefaultPaint, AllSucceed)
  \/ \E d \in DrawSprites, e \in AtlasEnvs :
       DrawAtlas([width |-> DeviceWidth, alphaOnly |-> FALSE], d[1], d[2], e)
  \/ Flush

SpecDraw == InitDraw /\ [][NextDraw]_vars

(***************************************************************************)
(* The canvas cleared under a matrix, a global alpha, a blend mode, a clip *)
(***************************************************************************)
ClearColors == {0, 50, 100}
ClearMatrices == {Identity, Flip, MakeTrans(PixelSize)}

NextClear ==
  \/ \E m \in ClearMatrices : SetMatrix(m)
  \/ \E a \in Alphas : SetAlpha(a)
  \/ \E b \in BlendModes : SetBlendMode(b)
  \/ \E r \in {{0, 1}, {2, 3}} : ClipRect(r)
  \/ \E color \in ClearColors : Clear(color, AllSucceed)
  \/ Flush

SpecClear == InitDraw /\ [][NextClear]_vars

(***************************************************************************)
(* Draws under a matrix that has no inverse                                *)
(***************************************************************************)
\* drawMask on its own, with the paint a fill hands it.  Inside the canvas it is
\* called by fillPath and drawMaskGlyphs only.
DrawMask(bounds, mask, env) ==
  LET cv == drawMask(DrawObject, bounds, mask,
                     PaintToGLPaint(DefaultPaint, state.alpha, "none", env), env)
  IN /\ CommitDraw(cv)
     /\ RecordDraw("drawMask", [bounds |-> bounds, mask |-> mask], cv)

SingularMatrices == {Identity, MakeScale(0), [sx |-> 0, tx |-> 1]}

NextSingular ==
  \/ \E m \in SingularMatrices : SetMatrix(m)
  \/ \E r \in {{0, 1}, {1, 2}} : ClipRect(r)
  \/ \E c \in PathCases, path \in {{0, 2}, {0, 1}} :
       DrawPath(path, FALSE, c.paint, c.env)
  \/ \E d \in DrawImages : DrawImageSampling(d[1], d[2].paint, d[2].env)
  \/ \E mask \in BOOLEAN : DrawMask({0, 1}, mask, AllSucceed)
  \/ Flush

SpecSingular == InitDraw /\ [][NextSingular]_vars

(***************************************************************************)
(* NextClipID called from several threads                                  *)
(***************************************************************************)
\* The counter when the threads start: fresh, or two short of its wraparound.
ClipIDStarts == {kFirstUnreservedClipID, U32(Half - 1, Half - 2)}

\* The canvas of the main thread has been constructed with the id the counter gave.
InitThreads ==
  /\ CacheConstructed
  /\ SurfaceConstructed
  /\ ProgramCacheConstructed
  /\ \E start \in ClipIDStarts :
       LET n == NextClipID(start)
           cv == NewCanvas(n.id)
       IN /\ state = cv.state
          /\ savedStateList = cv.savedStateList
          /\ clipID = cv.clipID
          /\ clipSurface = cv.clipSurface
          /\ nextID = n.nextID
          /\ issuedClipIDs = {n.id}
  /\ snapshots = << >>
  /\ threads = [t \in ThreadIds |-> IdleThread]
  /\ last = Call("init", 0, "")

ThreadStep(t, thread) ==
  /\ threads' = [threads EXCEPT ![t] = thread]
  /\ UNCHANGED <<cacheVars, surfaceVars, programVars, state, savedStateList, clipID,
                 clipSurface, snapshots>>

\* The thread constructs a canvas: the constructor calls NextClipID.
EnterNextClipID(t) ==
  /\ threads[t].pc = "idle"
  /\ Len(threads[t].returned) < MaxThreadCalls
  /\ ThreadStep(t, [threads[t] EXCEPT !.pc = "fetch"])
  /\ last' = Call("enter", t, "")
  /\ UNCHANGED <<nextID, issuedClipIDs>>

\* id = nextID++
FetchNextID(t) ==
  /\ threads[t].pc = "fetch"
  /\ LET f == FetchAdd(nextID)
     IN /\ ThreadStep(t, [threads[t] EXCEPT !.pc = "test", !.id = f.id])
        /\ nextID' = f.nextID
  /\ last' = Call("fetch", t, "")
  /\ UNCHANGED issuedClipIDs

\* while (id < kFirstUnreservedClipID): the thread goes round again
LoopNextClipID(t) ==
  /\ threads[t].pc = "test"
  /\ LoopAgain(threads[t].id)
  /\ ThreadStep(t, [threads[t] EXCEPT !.pc = "fetch"])
  /\ last' = Call("loop", t, "")
  /\ UNCHANGED <<nextID, issuedClipIDs>>

\* return id: the observer notes the id and whether it had been returned before.
ReturnNextClipID(t) ==
  /\ threads[t].pc = "test"
  /\ ~LoopAgain(threads[t].id)
  /\ ThreadStep(t, [threads[t] EXCEPT !.pc = "idle",
                                      !.returned = Append(@, threads[t].id)])
  /\ issuedClipIDs' = issuedClipIDs \cup {threads[t].id}
  /\ last' = Call("return", t, threads[t].id)
  /\ UNCHANGED nextID

NextThreads ==
  \E t \in ThreadIds :
    \/ EnterNextClipID(t)
    \/ FetchNextID(t)
    \/ LoopNextClipID(t)
    \/ ReturnNextClipID(t)

SpecThreads == InitThreads /\ [][NextThreads]_vars

(***************************************************************************)
(* The choice of the antialiasing mode, on its own                         *)
(***************************************************************************)
SampleCounts == {1, 4}
\* Angles in tenths of a degree, in the range of atan2.
Rotations == {-900, -896, -5, -3, 0, 3, 5, 450, 895, 900, 1800}

InitAA ==
  /\ CacheConstructed
  /\ CanvasConstructed
  /\ SurfaceConstructed
  /\ ProgramCacheConstructed
  /\ last = Call("init", 0, "")

\* One draw: the observer notes what the choice was made from and the AAType chosen.
ChooseAA(sampleCount, aa, bounds, rotation) ==
  /\ last' = Call("aaType",
                  [sampleCount |-> sampleCount, aa |-> aa, bounds |-> bounds,
                   rotation |-> rotation],
                  AATypeOf(sampleCount, aa, bounds, rotation))
  /\ UNCHANGED <<cacheVars, canvasVars, surfaceVars, programVars, threadVars>>

NextAA ==
  \E sampleCount \in SampleCounts, aa \in BOOLEAN, bounds \in Rects,
     rotation \in Rotations :
    ChooseAA(sampleCount, aa, bounds, rotation)

SpecAA == InitAA /\ [][NextAA]_vars

(***************************************************************************)
(* Properties of the canvas                                                *)
(***************************************************************************)
AllStates == {state} \cup Range(savedStateList)

TypeOKCanvas ==
  /\ \A s \in AllStates :
       /\ s.matrix \in Matrices
       /\ s.alpha \in Alphas
       /\ s.blendMode \in BlendModes
       /\ s.clip \subseteq Cells
       /\ s.clipID \in issuedClipIDs
  /\ Len(savedStateList) <= MaxDepth
  /\ Len(snapshots) = Len(savedStateList)

IsRestore == last'.op = "restore"
IsClip == last'.op \in {"clipRect", "clipPath"}
IsGetClipMask == last'.op = "getClipMask"

\* C3: a restore() that finds a saved state puts back the matrix, alpha, blend mode,
\* clip geometry and clip identity of the matching save(), whatever was called in
\* between, and leaves the stack as deep as it was before that save().
C3_SaveRestoreRoundTrip ==
  [][(IsRestore /\ savedStateList # << >>) =>
        /\ state' = Top(snapshots).state
        /\ Len(savedStateList') = Top(snapshots).depth
        /\ savedStateList' = Pop(savedStateList)]_vars

\* a restore() of the inner of two nested saves that changed the current state
C3_Witness ==
  /\ last.op = "restore"
  /\ last.arg = 2
  /\ last.result = "changed"
  /\ Len(savedStateList) = 1
  /\ state # savedStateList[1]

\* C4: restore() on an empty stack changes neither the current state nor the stack.
C4_RestoreOnEmptyStack ==
  [][(IsRestore /\ savedStateList = << >>) =>
        /\ state' = state
        /\ savedStateList' = << >>]_vars

\* restore() was called on an empty stack with a current state that is not the
\* initial one
C4_Witness ==
  /\ last.op = "restore"
  /\ last.arg = 0
  /\ savedStateList = << >>
  /\ state.matrix = Flip
  /\ state.alpha = 50
  /\ state.blendMode = "Src"
  /\ state.clip # Cells

\* C5: two states of the canvas (the current one and the saved ones) that carry the
\* same clip identity have the same clip geometry.
C5_EqualIdentityEqualGeometry ==
  \A s \in AllStates, t \in AllStates : s.clipID = t.clipID => s.clip = t.clip

\* a saved state shares its identity with the current state, which has another
\* matrix, and another saved state has another identity and another geometry
C5_Witness ==
  /\ Len(savedStateList) = 2
  /\ savedStateList[2].clipID = state.clipID
  /\ savedStateList[2].matrix # state.matrix
  /\ savedStateList[1].clipID # state.clipID
  /\ savedStateList[1].clip # state.clip

C7_MaskNeverStale ==
  [][IsGetClipMask =>
       /\ last'.result = "texture" =>
            (clipSurface'.cleared /\ clipSurface'.pixels = state'.clip)
       /\ (last'.result = "texture" /\ clipID # state.clipID) =>
            clipID' = state.clipID
       /\ (clipID' # clipID) =>
            (clipID' = state.clipID /\ clipSurface'.cleared
               /\ clipSurface'.pixels = state.clip)
       /\ (last'.result = "nullptr" /\ clipID # state.clipID) =>
            clipID' # state.clipID]_vars

\* a draw was handed a mask texture that was never drawn to
C7_Witness ==
  /\ last.op = "getClipMask"
  /\ last.result = "texture"
  /\ clipID = state.clipID
  /\ clipSurface.allocated
  /\ ~clipSurface.cleared
  /\ state.clip = {0, 2}

(***************************************************************************)
(* The program cache and its caller                                        *)
(***************************************************************************)
RecordProgram(op, arg, result) ==
  /\ last' = Call(op, arg, result)
  /\ UNCHANGED <<cacheVars, canvasVars, surfaceVars, threadVars>>

InitProgram ==
  /\ CacheConstructed
  /\ CanvasConstructed
  /\ SurfaceConstructed
  /\ ProgramCacheConstructed
  /\ last = Call("init", 0, [program |-> NoProgram, hit |-> FALSE, deleted |-> << >>,
                             gpuReleased |-> << >>, compiled |-> << >>])

\* The pipeline descriptions a caller asks for: the first one that is not cached
\* and, of the cached ones, the one at the front and the one at the back of the list.
RequestedKeys ==
  (IF Len(programLRU) \in EventSizes /\ programHits < MaxHits
   THEN {programLRU[1], programLRU[Len(programLRU)]} ELSE {})
    \cup {CHOOSE k \in PipelineKeys \ DOMAIN programMap :
            \A j \in PipelineKeys \ DOMAIN programMap : k <= j}

\* The keys in the cache after the call, by last use: the key asked for is the latest
\* when the call returned a program.
Used(order, uniqueKey, program, cachedKeys) ==
  SelectSeq(IF program = NoProgram THEN order
            ELSE PushFront(ListRemove(order, uniqueKey), uniqueKey),
            LAMBDA k : k \in cachedKeys)

GetProgram(uniqueKey, created) ==
  LET g == getProgram(ProgramCacheObject, uniqueKey, created)
  IN /\ g[2] # NoProgram => programCalls < MaxCalls
     /\ CommitProgramCache(g[1])
     /\ recency' = Used(recency, uniqueKey, g[2], DOMAIN g[1].programMap)
     /\ programCalls' = IF g[2] # NoProgram THEN programCalls + 1 ELSE programCalls
     /\ programHits' = IF uniqueKey \in DOMAIN programMap THEN programHits + 1
                       ELSE programHits
     /\ RecordProgram("getProgram", uniqueKey,
                      [program |-> g[2], hit |-> uniqueKey \in DOMAIN programMap,
                       deleted |-> g[1].deleted, gpuReleased |-> g[1].gpuReleased,
                       compiled |-> g[1].compiled])

ReleaseAllPrograms(releaseGPU) ==
  LET pc == releaseAllPrograms(ProgramCacheObject, releaseGPU)
  IN /\ Len(programLRU) \in EventSizes
     /\ CommitProgramCache(pc)
     /\ recency' = << >>
     /\ UNCHANGED <<programCalls, programHits>>
     /\ RecordProgram("releaseAll", releaseGPU,
                      [program |-> NoProgram, hit |-> FALSE,
                       deleted |-> pc.deleted, gpuReleased |-> pc.gpuReleased,
                       compiled |-> pc.compiled])

NextProgram ==
  \/ \E k \in RequestedKeys, created \in BOOLEAN : GetProgram(k, created)
  \/ \E releaseGPU \in BOOLEAN : ReleaseAllPrograms(releaseGPU)

SpecProgram == InitProgram /\ [][NextProgram]_vars

(***************************************************************************)
(* Properties of the program cache                                         *)
(***************************************************************************)
TypeOKProgram ==
  /\ Range(programLRU) = DOMAIN programMap
  /\ Cardinality(DOMAIN programMap) = Len(programLRU)
  /\ Range(recency) = DOMAIN programMap
  /\ Len(recency) = Len(programLRU)

\* a getProgram that created a program while the cache held MAX_PROGRAM_COUNT
IsMissAtCapacity ==
  /\ last'.op = "getProgram"
  /\ ~last'.result.hit
  /\ last'.result.program # NoProgram
  /\ Len(programLRU) = MAX_PROGRAM_COUNT

\* C8: the cache never holds more than MAX_PROGRAM_COUNT programs; a miss at that
\* size deletes exactly one program, the one used longest ago among those cached
\* before the call, calls its onReleaseGPU, and keeps the program it has just made.
C8_AtMostMaxPrograms ==
  [][/\ Len(programLRU') <= MAX_PROGRAM_COUNT
     /\ Cardinality(DOMAIN programMap') <= MAX_PROGRAM_COUNT
     /\ IsMissAtCapacity =>
          /\ last'.result.deleted = <<recency[Len(recency)]>>
          /\ last'.result.gpuReleased = <<recency[Len(recency)]>>
          /\ last'.arg \notin DOMAIN programMap
          /\ DOMAIN programMap' =
               (DOMAIN programMap \ {recency[Len(recency)]}) \cup {last'.arg}
          /\ programLRU'[1] = last'.arg]_vars

\* the 129th distinct key arrived after the first-made program had been used again:
\* the second-made program was deleted and the first-made one is still cached
C8_Witness ==
  /\ last.op = "getProgram"
  /\ ~last.result.hit
  /\ last.arg = MAX_PROGRAM_COUNT + 1
  /\ last.result.deleted = <<2>>
  /\ last.result.gpuReleased = <<2>>
  /\ Len(programLRU) = MAX_PROGRAM_COUNT
  /\ 1 \in DOMAIN programMap

(***************************************************************************)
(* Canvas: properties of the draw calls                                    *)
(***************************************************************************)
TypeOKDraw ==
  /\ TypeOKCanvas
  /\ origin \in Origins
  /\ \A i \in DOMAIN ops :
       ops[i].type \in {"ClearOp", "FillRectOp", "RRectOp", "TriangulatingPathOp", "ShapeOp"}

IsDrawCall ==
  last'.op \in {"clear", "drawRect", "drawPath", "drawShape", "drawImage", "drawGlyphs",
                "drawSimpleText", "drawAtlas"}

\* The operation a step has queued last, and the steps that queue exactly one
\* operation through Canvas::draw.
AppendedOp == ops'[Len(ops')]
AppendsDrawOp ==
  /\ IsDrawCall
  /\ Len(ops') = Len(ops) + 1
  /\ AppendedOp.type # "ClearOp"

\* The coverage processors the clip has added to an operation.
ClipMasks(op) == Range(op.masks) \cap {"AARectEffect", "texture"}
NoClipTreatment(op) == op.scissorRect = {} /\ ClipMasks(op) = {}

\* The kinds of clip: a rect on the pixel boundaries of the surface (after the flip
\* of the origin) that is not the whole surface, a rect off the boundaries, and a clip
\* that Path::asRect does not take for a rect, as a rotated rectangle.
AlignedSubRect(clip) ==
  asRect(clip) /\ clip # Cells /\ IsPixelAligned(FlipYIfNeeded(clip, origin))
UnalignedRect(clip) == asRect(clip) /\ ~IsPixelAligned(FlipYIfNeeded(clip, origin))
NoRect(clip) == clip # {} /\ ~asRect(clip)

\* C13 as stated: the treatment follows from the kind of clip alone.
C13_Original ==
  [][AppendsDrawOp =>
       /\ state.clip = Cells => NoClipTreatment(AppendedOp)
       /\ AlignedSubRect(state.clip)
            => /\ AppendedOp.scissorRect = FlipYIfNeeded(state.clip, origin)
               /\ ClipMasks(AppendedOp) = {}
       /\ (UnalignedRect(state.clip) \/ NoRect(state.clip))
            => /\ AppendedOp.scissorRect = {}
               /\ ClipMasks(AppendedOp) # {}]_vars

\* C13 amended: a clip that contains the device bounds of the operation gets no
\* treatment, whatever its kind.  Otherwise the whole surface as clip gets none, a
\* pixel-aligned strict sub-rectangle gets a scissor rect (the clip after the flip of
\* the origin) and no coverage processor, a rect off the pixel boundaries gets the
\* analytic AARectEffect and no scissor rect, and a clip that is no rect gets the
\* rasterized mask and no scissor rect, or nothing at all when the surface of the mask
\* cannot be made.
C13_ClipResolution ==
  [][AppendsDrawOp =>
       IF contains(state.clip, AppendedOp.bounds) THEN NoClipTreatment(AppendedOp)
       ELSE /\ state.clip = Cells => NoClipTreatment(AppendedOp)
            /\ AlignedSubRect(state.clip)
                 => /\ AppendedOp.scissorRect = FlipYIfNeeded(state.clip, origin)
                    /\ ClipMasks(AppendedOp) = {}
            /\ UnalignedRect(state.clip)
                 => /\ AppendedOp.scissorRect = {}
                    /\ ClipMasks(AppendedOp) = {"AARectEffect"}
            /\ NoRect(state.clip)
                 => /\ AppendedOp.scissorRect = {}
                    /\ ClipMasks(AppendedOp) =
                         IF "clipSurface" \in last'.result.failed THEN {} ELSE {"texture"}]_vars

\* A fill has been queued with a scissor rect on a surface whose origin is flipped.
C13_Witness ==
  /\ last.op = "drawPath"
  /\ origin = "BottomLeft"
  /\ ops # << >>
  /\ ops[Len(ops)].type = "FillRectOp"
  /\ ops[Len(ops)].scissorRect = {2, 3}
  /\ state.clip = {0, 1}

\* A step that is a drawPath reaching fillPath with a non-empty path and a paint that
\* converts: the paint draws something, fills, and its shader and color filter give
\* their fragment processors.
IsFill ==
  /\ last'.op = "drawPath"
  /\ last'.arg.path # {}
  /\ last'.arg.paint.style = "Fill"
  /\ ~nothingToDraw(CanvasObject, last'.arg.paint)
  /\ last'.arg.paint.colorFilter # "unconvertible"
  /\ "shaderFP" \notin last'.result.failed

\* Where each strategy applies to the fill of a step, read off the arguments and the
\* canvas rather than off fillPath.
FillMeetsClip ==
  mapRect(state.matrix, getBounds(last'.arg.path)) \cap roundOut(getBounds(state.clip)) # {}
ClearApplies ==
  LET paint == last'.arg.paint
  IN /\ paint.shader = "none" /\ paint.colorFilter = "none" /\ paint.maskFilter = "none"
     /\ state.blendMode = "Src" \/ state.alpha * paint.alpha = 100 * 100
     /\ asRect(last'.arg.path)
     /\ IsPixelAligned(mapRect(state.matrix, last'.arg.path))
     /\ state.clip = Cells \/ AlignedSubRect(state.clip)
SimpleApplies == asRect(last'.arg.path) \/ last'.arg.rRect
TriangulationApplies == last'.arg.triangulates
FirstApplicable ==
  IF ClearApplies THEN "clear"
  ELSE IF SimpleApplies THEN "simple"
  ELSE IF TriangulationApplies THEN "triangulation"
  ELSE "mask"

\* What a fill by the given strategy queues.
QueuedBy(strategy) ==
  LET n == Len(ops') - Len(ops)
  IN CASE strategy = "clear" -> n = 1 /\ AppendedOp.type = "ClearOp"
       [] strategy = "simple" ->
            /\ n = 1
            /\ AppendedOp.type \in {"FillRectOp", "RRectOp"}
            /\ "TextureEffect" \notin Range(AppendedOp.masks)
       [] strategy = "triangulation" -> n = 1 /\ AppendedOp.type = "TriangulatingPathOp"
       [] strategy = "mask" ->
            IF "maskTexture" \in last'.result.failed THEN n = 0
            ELSE /\ n = 1
                 /\ AppendedOp.type = "FillRectOp"
                 /\ "TextureEffect" \in Range(AppendedOp.masks)

OneStrategyInOrder ==
  /\ last'.result.strategies = <<FirstApplicable>>
  /\ QueuedBy(FirstApplicable)
  /\ SubSeq(ops', 1, Len(ops)) = ops

\* C14 as stated: every fill of a non-empty path with a convertible paint selects
\* exactly one strategy.
C14_Original == [][IsFill => OneStrategyInOrder]_vars

\* C14 amended: a fill whose device bounds miss the bounds of the clip selects no
\* strategy and queues nothing; every other fill of a non-empty path with a convertible
\* paint selects exactly one strategy, the first that applies in the order clear, rect
\* or round-rect op, triangulation op, rasterized mask, and queues at most one
\* operation behind the operations already queued.
C14_OneStrategyInOrder ==
  [][IsFill =>
       IF FillMeetsClip THEN OneStrategyInOrder
       ELSE last'.result.strategies = << >> /\ ops' = ops]_vars

\* A fill has fallen through to the rasterized mask and queued its composite.
C14_Witness ==
  /\ last.op = "drawPath"
  /\ last.result.strategies = <<"mask">>
  /\ ops # << >>
  /\ "TextureEffect" \in Range(ops[Len(ops)].masks)

\* A step that fills a rect on the pixel boundaries with an opaque color in blend mode
\* Src, the paint having no shader, color filter or mask filter (every matrix of the
\* row maps rects to rects).
IsOpaqueSrcRectFill ==
  /\ IsFill
  /\ asRect(last'.arg.path)
  /\ IsPixelAligned(last'.arg.path)
  /\ IsPixelAligned(mapRect(state.matrix, last'.arg.path))
  /\ state.blendMode = "Src"
  /\ state.alpha * last'.arg.paint.alpha = 100 * 100
  /\ last'.arg.paint.shader = "none"
  /\ last'.arg.paint.colorFilter = "none"
  /\ last'.arg.paint.maskFilter = "none"

QueuesClearOp(rect) ==
  /\ last'.result.strategies = <<"clear">>
  /\ ops' = Append(ops, ClearOp(100, rect))

\* C15 as stated: such a fill queues a clear operation under every clip.
C15_Original ==
  [][IsOpaqueSrcRectFill =>
       /\ last'.result.strategies = <<"clear">>
       /\ Len(ops') = Len(ops) + 1
       /\ AppendedOp.type = "ClearOp"]_vars

\* C15 amended: such a fill is drawn as a clear when the clip is the whole surface or
\* a pixel-aligned rect that the fill meets: a ClearOp over the fill, cut to the clip,
\* is queued and no draw op.  Under a rect off the pixel boundaries or a clip that is
\* no rect it is queued as a FillRectOp, and a fill that misses the clip queues nothing.
C15_DrawAsClear ==
  [][IsOpaqueSrcRectFill =>
       LET bounds == mapRect(state.matrix, last'.arg.path)
       IN IF ~FillMeetsClip THEN ops' = ops
          ELSE IF state.clip = Cells \/ AlignedSubRect(state.clip)
          THEN QueuesClearOp(FlipYIfNeeded(bounds \cap state.clip, origin))
          ELSE /\ last'.result.strategies = <<"simple">>
               /\ Len(ops') = Len(ops) + 1
               /\ AppendedOp.type = "FillRectOp"]_vars

\* A fill has been queued as a clear cut to a clip smaller than the fill, on a surface
\* whose origin is flipped.
C15_Witness ==
  /\ last.op = "drawPath"
  /\ last.arg.path = Cells
  /\ last.result.strategies = <<"clear">>
  /\ state.clip = {0, 1}
  /\ origin = "BottomLeft"
  /\ ops = <<ClearOp(100, {2, 3})>>


\* A draw call in which an allocation of the GPU backend has failed.
AllocationFailed == IsDrawCall /\ last'.result.failed # {}

\* C16: a draw call in which a GPU allocation fails (the texture of the fill mask, the
\* surface of the clip mask, the fragment processor of an image or of a shader)
\* appends no operation, and the operations queued before it stay queued in their
\* order: the queue after the call is the queue before it.
C16_FailedDrawAppendsNothing ==
  [][AllocationFailed => ops' = ops]_vars

\* The surface of the clip mask could not be made for a fill under a clip that is no
\* rect, and the fill has been queued with no clip treatment at all.
C16_Witness ==
  /\ last.op = "drawPath"
  /\ "clipSurface" \in last.result.failed
  /\ NoRect(state.clip)
  /\ ops # << >>
  /\ ~contains(state.clip, ops[Len(ops)].bounds)
  /\ NoClipTreatment(ops[Len(ops)])

\* C17: every draw call (clear, drawRect, drawPath, drawShape, the drawImage
\* overloads, drawGlyphs, drawSimpleText, drawAtlas), whether it queues an operation,
\* draws nothing or fails midway, returns with the matrix, alpha, blend mode, clip and
\* clip identity of the current state and the stack of saved states as they were
\* at entry.
C17_DrawKeepsState ==
  [][IsDrawCall => /\ state' = state
                   /\ Len(savedStateList') = Len(savedStateList)
                   /\ savedStateList' = savedStateList]_vars
\* drawGlyphs has drawn the glyph images of a run under a flipped matrix, a saved
\* state and a clip, and the caller's state is the one at entry.
C17_Witness ==
  /\ last.op = "drawGlyphs"
  /\ ops # << >>
  /\ state.matrix = Flip
  /\ state.clip = {0, 2}
  /\ Len(savedStateList) = 1
\* A step that fills the rect R of its argument with alpha 1 and SrcOver blend under
\* the clip that clipRect(R) leaves on a canvas with no clip: R mapped by the matrix.
IsRectFillUnderOwnClip ==
  /\ IsFill
  /\ asRect(last'.arg.path)
  /\ state.alpha = 100
  /\ state.blendMode = "SrcOver"
  /\ state.clip = mapRect(state.matrix, last'.arg.path)

\* The same canvas with no clip applied: the clip is the whole surface.
Unclipped == [DrawObject EXCEPT !.state.clip = Cells]

\* C18: filling an axis-aligned rect R with alpha 1 and SrcOver blend after
\* clipRect(R) queues the same operation, with the same scissor rect and coverage
\* processors, as filling R with no clip applied: the clip gets no treatment.
C18_ExactClipAddsNothing ==
  [][IsRectFillUnderOwnClip =>
       /\ ops' = drawPath(Unclipped, last'.arg.path, last'.arg.rRect, last'.arg.paint,
                          AllSucceed).ops
       /\ Len(ops') = Len(ops) + 1
       /\ NoClipTreatment(AppendedOp)]_vars

\* A rect off the pixel boundaries has been filled under the clip that is this rect,
\* and a rect draw op has been queued.
C18_Witness ==
  /\ last.op = "drawPath"
  /\ last.arg.path = {1, 2}
  /\ last.arg.paint = DefaultPaint
  /\ state.clip = {1, 2}
  /\ state.matrix = Identity
  /\ state.blendMode = "SrcOver"
  /\ ops # << >>
  /\ ops[Len(ops)].type = "FillRectOp"
  /\ ops[Len(ops)].bounds = {1, 2}
(***************************************************************************)
(* Properties of getProgram                                                *)
(***************************************************************************)
\* A getProgram that found no program for its key and whose createProgram gave none.
IsFailedMiss ==
  /\ last'.op = "getProgram"
  /\ last'.arg \notin DOMAIN programMap
  /\ last'.result.program = NoProgram

\* C19: when createProgram fails on a miss, getProgram returns no program and the
\* cache is as before the call: the same entries in the same order, the same size,
\* and no program deleted or released.
C19_FailedCreateKeepsCache ==
  [][/\ (last'.op = "getProgram" /\ last'.result.program = NoProgram)
          => last'.arg \notin DOMAIN programMap
     /\ IsFailedMiss =>
          /\ last'.result.compiled = <<last'.arg>>
          /\ programLRU' = programLRU
          /\ programMap' = programMap
          /\ Len(programLRU') = Len(programLRU)
          /\ last'.result.deleted = << >>
          /\ last'.result.gpuReleased = << >>]_vars

\* createProgram has failed for a new key while the cache held MAX_PROGRAM_COUNT
\* programs.
C19_Witness ==
  /\ last.op = "getProgram"
  /\ last.result.program = NoProgram
  /\ last.result.compiled = <<last.arg>>
  /\ last.arg \notin DOMAIN programMap
  /\ Len(programLRU) = MAX_PROGRAM_COUNT

\* A getProgram for a key that has a program in the cache.
IsHit ==
  /\ last'.op = "getProgram"
  /\ last'.arg \in DOMAIN programMap

\* C20: getProgram for a key that has a cached program returns that program and calls
\* createProgram for nothing, makes the program the first of the list with the others
\* in their order, and leaves the entries and the size of the cache as they were; a
\* call with the key of the call before it, which returned a program, returns the
\* same program.
C20_HitReturnsCached ==
  [][/\ IsHit =>
          /\ last'.result.program = programMap[last'.arg]
          /\ last'.result.compiled = << >>
          /\ last'.result.deleted = << >>
          /\ programLRU' = PushFront(ListRemove(programLRU, programMap[last'.arg]),
                                     programMap[last'.arg])
          /\ programLRU'[1] = last'.result.program
          /\ programMap' = programMap
          /\ Len(programLRU') = Len(programLRU)
     /\ (/\ last'.op = "getProgram"
         /\ last.op = "getProgram"
         /\ last.arg = last'.arg
         /\ last.result.program # NoProgram)
          => /\ last'.result.program = last.result.program
             /\ last'.result.compiled = << >>]_vars

\* The program at the back of a full cache, the first one made, has been asked for
\* again and is now the first of the list.
C20_Witness ==
  /\ last.op = "getProgram"
  /\ last.result.hit
  /\ last.result.compiled = << >>
  /\ Len(programLRU) = MAX_PROGRAM_COUNT
  /\ programLRU[1] = 1
  /\ last.result.program = 1

\* C28: releaseAll(releaseGPU) leaves the cache empty, the key map and the LRU list
\* both; it destroys every program that was cached exactly once, the oldest first,
\* and issues the GPU-side release of each if and only if releaseGPU is true; the
\* getProgram that follows misses and compiles.
C28_ReleaseAllEmpties ==
  [][/\ last'.op = "releaseAll" =>
          /\ programLRU' = << >>
          /\ DOMAIN programMap' = {}
          /\ last'.result.deleted = Reverse(programLRU)
          /\ \A p \in Range(programLRU) : Occurrences(last'.result.deleted, p) = 1
          /\ last'.result.gpuReleased
               = IF last'.arg THEN last'.result.deleted ELSE << >>
          /\ last'.result.compiled = << >>
     /\ (last.op = "releaseAll" /\ last'.op = "getProgram") =>
          /\ ~last'.result.hit
          /\ last'.result.compiled = <<last'.arg>>
          /\ last'.result.deleted = << >>]_vars

\* A full cache has been released without GPU calls: every program was destroyed,
\* none was released on the GPU, and nothing is cached.
C28_Witness ==
  /\ last.op = "releaseAll"
  /\ last.arg = FALSE
  /\ Len(last.result.deleted) = MAX_PROGRAM_COUNT
  /\ last.result.gpuReleased = << >>
  /\ programLRU = << >>
  /\ DOMAIN programMap = {}

\* A step in which the call did nothing: no operation appended, no failure reported,
\* no canvas state changed.
IsSkipped ==
  /\ ops' = ops
  /\ last'.result.failed = {}
  /\ last'.result.strategies = << >>
  /\ state' = state
  /\ savedStateList' = savedStateList
  /\ clipID' = clipID
  /\ clipSurface' = clipSurface

\* A step that is drawPath or drawRect with an empty path or a degenerate rect, or
\* drawGlyphs with a run of no glyphs.
IsEmptyDraw ==
  \/ last'.op \in {"drawPath", "drawRect"} /\ last'.arg.path = {}
  \/ last'.op = "drawGlyphs" /\ last'.arg.glyphs = << >>

\* A step that is drawPath, drawRect or drawGlyphs with a fully transparent paint.
IsTransparentDraw ==
  /\ last'.op \in {"drawPath", "drawRect", "drawGlyphs"}
  /\ last'.arg.paint.alpha = 0

Written(o) == IF o.type = "ClearOp" THEN FlipYIfNeeded(o.bounds, origin) ELSE o.bounds

\* C30: clear(color) appends one operation that replaces every pixel of the current
\* clip with exactly the given color, whatever the matrix, the global alpha and the
\* blend mode are, and the blend mode after the call is the one before it.
C30_ClearFillsClip ==
  [][last'.op = "clear" =>
       /\ state'.blendMode = state.blendMode
       /\ state.clip # {} =>
            /\ Len(ops') = Len(ops) + 1
            /\ state.clip \subseteq Written(ops'[Len(ops')])
            /\ ops'[Len(ops')].color = last'.arg
            /\ ops'[Len(ops')].type # "ClearOp" => ops'[Len(ops')].blendMode = "Src"]_vars

\* clear with an opaque color under a global alpha of one half has appended an
\* operation that writes the color at half its alpha.
C30_Witness ==
  /\ last.op = "clear"
  /\ last.arg = 100
  /\ state.alpha = 50
  /\ state.matrix = Identity
  /\ Len(ops) = 1
  /\ ops[1].color = 50

(***************************************************************************)
(* Properties of the notices a fill gives to the surface                   *)
(***************************************************************************)
\* C38: a fill that is not drawn as a clear has given the surface no notice of a draw
\* that discards its content, and a fill gives the surface one notice for every
\* operation it queues.
C38_DeclinedClearGivesNoNotice ==
  [][last'.op = "drawPath" =>
       /\ "clear" \notin Range(last'.result.strategies) =>
            TRUE \notin Range(last'.result.notified)
       /\ Len(last'.result.notified) = Len(ops') - Len(ops)]_vars

\* An opaque fill of a pixel-aligned rect under a clip that is no rect was queued as
\* a FillRectOp, after the surface was told that its content is discarded.
C38_Witness ==
  /\ last.op = "drawPath"
  /\ last.result.strategies = <<"simple">>
  /\ last.result.notified = <<TRUE, FALSE>>
  /\ ~asRect(state.clip)
  /\ Len(ops) = 1
  /\ ops[1].type = "FillRectOp"
  /\ ops[1].masks # << >>

(***************************************************************************)
(* Properties of the cached clip mask across draws                         *)
(***************************************************************************)
\* A step that is a draw which is handed the mask texture.
IsMaskDraw == last'.op = "getClipMask" /\ last'.result = "texture"

\* C34: across consecutive draws that are handed the mask texture, with no change of
\* the clip identity between them, the clip is rasterized once, by the first: after
\* every such draw the mask surface holds the rasterized clip under the tag of the
\* current identity, and a draw that follows such a draw leaves the mask surface and
\* the tag as they are and gets the same treatment.
C34_RasterizedOncePerIdentity ==
  [][IsMaskDraw =>
       /\ clipID' = state.clipID
       /\ clipSurface'.allocated
       /\ clipSurface'.cleared
       /\ clipSurface'.pixels = state.clip
       /\ (last.op = "getClipMask" /\ last.result = "texture") =>
            /\ clipSurface' = clipSurface
            /\ clipID' = clipID
            /\ last'.arg.tagDiffers = 0]_vars

\* A draw under the clip identity of the tag has been handed the mask texture, the
\* clip covers pixels, and the mask surface has never been cleared or drawn to.
C34_Witness ==
  /\ last.op = "getClipMask"
  /\ last.arg.tagDiffers = 0
  /\ last.result = "texture"
  /\ clipID = state.clipID
  /\ clipSurface.allocated
  /\ ~clipSurface.cleared
  /\ clipSurface.pixels = {}
  /\ state.clip # {}
  /\ ~asRect(state.clip)

IsFillOfPath == last'.op = "drawPath" /\ ~asRect(last'.arg.path) /\ ~last'.arg.rRect
IsMaskComposite == last'.op = "drawMask" /\ last'.arg.mask
IsFilteredImage ==
  /\ last'.op = "drawImage"
  /\ last'.arg.overload = 1
  /\ last'.arg.paint.imageFilter # "none"

\* C33: under a matrix that has no inverse a fill of a path that is neither a rect
\* nor a round rect, a mask composite and a draw of an image with an image filter
\* append no operation and leave the state of the canvas as it was; the mask
\* composite and the image draw stop before they ask for anything.
C33_SingularMatrixSkips ==
  [][~invertible(state.matrix) =>
       /\ (IsFillOfPath \/ IsMaskComposite \/ IsFilteredImage) =>
            /\ ops' = ops
            /\ state' = state
            /\ savedStateList' = savedStateList
            /\ clipID' = clipID
            /\ clipSurface' = clipSurface
       /\ (IsMaskComposite \/ IsFilteredImage) => IsSkipped]_vars

\* An image with an image filter has been drawn under a matrix that scales by 0:
\* nothing was appended and nothing failed.
C33_Witness ==
  /\ last.op = "drawImage"
  /\ last.arg.overload = 1
  /\ last.arg.paint.imageFilter # "none"
  /\ ~invertible(state.matrix)
  /\ last.result.failed = {}
  /\ ops = << >>

(***************************************************************************)
(* Properties of NextClipID called from several threads                    *)
(***************************************************************************)
\* The ids the calls of the threads have returned, with the thread and the position.
Returns == {<<t, i>> : t \in ThreadIds, i \in 1..MaxThreadCalls}
Returned(c) == threads[c[1]].returned[c[2]]
Done == {c \in Returns : c[2] <= Len(threads[c[1]].returned)}

\* C31: the ids that calls of NextClipID made from several threads return are
\* pairwise distinct and distinct from the one the main canvas holds, across the
\* wraparound of the counter too as long as fewer than 2^32 calls are made; none is
\* the reserved 0; a canvas constructed with such an id has a mask tag that differs
\* from the identity of its first state.
C31_ConcurrentIDsDistinct ==
  /\ \A c \in Done, d \in Done : c # d => Returned(c) # Returned(d)
  /\ \A c \in Done :
       /\ Returned(c) # kDefaultClipID
       /\ Returned(c) \in issuedClipIDs
       /\ NewCanvas(Returned(c)).clipID # NewCanvas(Returned(c)).state.clipID
  /\ Cardinality(issuedClipIDs) = Cardinality(Done) + 1
  /\ clipID # state.clipID

\* The counter has wrapped while two threads were inside NextClipID: one has drawn
\* the reserved 0 and has not yet tested it, the other has drawn 1 after it and has
\* returned it.
C31_Witness ==
  \E a \in ThreadIds, b \in ThreadIds :
    /\ a # b
    /\ threads[a].pc = "test"
    /\ threads[a].id = kDefaultClipID
    /\ last = Call("return", b, U32(0, 1))
    /\ nextID = U32(0, 2)

(***************************************************************************)
(* Properties of the choice of the antialiasing mode                       *)
(***************************************************************************)
\* The angle is an exact multiple of 90 degrees.
IsRightAngle(rotation) == rotation % 900 = 0

\* The angle is within half a degree of a multiple of 90 degrees (the half counted on
\* the side of zero).
IsNearRightAngle(rotation) ==
  LET a == IF rotation < 0 THEN -rotation ELSE rotation
  IN \E k \in 0..2 : 900 * k - 5 <= a /\ a < 900 * k + 5

\* The statement of C27 as it was made: multisampling when the target has more than
\* one sample; otherwise coverage when the bounds are not pixel-aligned or the angle
\* is not an exact multiple of 90 degrees; otherwise none.
C27_Original ==
  last.op = "aaType" =>
    last.result =
      IF last.arg.sampleCount > 1 THEN "MSAA"
      ELSE IF ~IsPixelAligned(last.arg.bounds) \/ ~IsRightAngle(last.arg.rotation)
           THEN "Coverage"
      ELSE "None"

\* C27: the antialiasing mode of a draw is multisampling when the render target has
\* more than one sample; otherwise coverage when the draw asks for antialiasing and
\* the bounds of the op are not pixel-aligned, or when the angle of the current
\* matrix is not within half a degree of a multiple of 90 degrees; otherwise none.
C27_AATypeChoice ==
  last.op = "aaType" =>
    /\ last.arg.sampleCount > 1 => last.result = "MSAA"
    /\ last.arg.sampleCount <= 1 =>
         /\ (last.arg.aa /\ ~IsPixelAligned(last.arg.bounds))
              => last.result = "Coverage"
         /\ ~IsNearRightAngle(last.arg.rotation) => last.result = "Coverage"
         /\ (/\ ~last.arg.aa \/ IsPixelAligned(last.arg.bounds)
             /\ IsNearRightAngle(last.arg.rotation))
              => last.result = "None"

\* A draw that does not ask for antialiasing, with bounds off the pixel grid and no
\* rotation, on a single-sample target: no antialiasing.
C27_Witness ==
  /\ last.op = "aaType"
  /\ last.arg.sampleCount = 1
  /\ ~last.arg.aa
  /\ last.arg.bounds # {}
  /\ ~IsPixelAligned(last.arg.bounds)
  /\ last.arg.rotation = 0
  /\ last.result = "None"
====
